---- MODULE Spec2Model ----
(***************************************************************************)
(* A model of the client-side presentation layer of the car-rental site:   *)
(* the mobile navigation drawer (MobileMenu, openMobileMenu,               *)
(* closeMobileMenu and the event handlers around them), the fleet manager  *)
(* (FleetManager in js/api.js) and the language switcher                   *)
(* (js/lang-switcher.js).                                                  *)
(*                                                                         *)
(* Time is counted in milliseconds and advances in steps of TimeStep, the  *)
(* greatest common divisor of the delays the code passes to setTimeout.    *)
(* A timer is its remaining time; a timer that is due (remaining 0) stops  *)
(* the clock until it has run, user events may happen at any moment.       *)
(***************************************************************************)
EXTENDS Integers, Sequences, FiniteSets, TLC

(* ----------------------------- constants ------------------------------ *)

\* setTimeout(..., 350) in openMobileMenu and closeMobileMenu
AnimationMs == 350
\* setTimeout(initMobileMenu, 100)
InitDelayMs == 100
\* resizeTimeout = setTimeout(handleMenuResize, 250)
ResizeDebounceMs == 250
\* scrollTimeout = setTimeout(..., 100)
ScrollThrottleMs == 100
\* MobileMenu.swipeThreshold
SwipeThreshold == 50
\* velocity > 0.3, kept as the fraction FlickNum / FlickDen
FlickNum == 3
FlickDen == 10
\* window.innerWidth > 768
MobileMaxWidth == 768
\* mobileNav.offsetWidth || 300
DefaultMenuWidth == 300
\* the focus timer of a toggle click: setTimeout(..., 100) in setupKeyboardNavigation
FocusDelayMs == 100
\* setTimeout(enhanceAccessibility, 500)
EnhanceDelayMs == 500
\* setTimeout(() => AOS.refresh(), 300) in handleOrientationChange
AosRefreshMs == 300
\* setTimeout(..., 400) in handleAnchorLinkClick
AnchorScrollMs == 400

(* ------------------------------- bounds ------------------------------- *)

\* the scroll offsets of the page are 0, ScrollUnit, ..., MaxScrollSteps * ScrollUnit
MaxScrollSteps == 1
ScrollUnit == 60

(* ------------------------------ helpers ------------------------------- *)

RECURSIVE GCD(_, _)
GCD(a, b) == IF b = 0 THEN a ELSE GCD(b, a % b)

TimeStep == GCD(GCD(AnimationMs, InitDelayMs), GCD(ResizeDebounceMs, ScrollThrottleMs))

Min(a, b) == IF a <= b THEN a ELSE b

\* no timer pending in a timer slot (a timer id that was cleared or never set)
NoTimer == 0 - 1

\* a JavaScript number that may be NaN: <<n>> is the number n, <<>> is NaN
Num(n) == <<n>>
NaN == <<>>
Neg(v) == IF v = NaN THEN NaN ELSE Num(-v[1])

MaxScroll == MaxScrollSteps * ScrollUnit
ScrollOffsets == {k * ScrollUnit : k \in 0..MaxScrollSteps}

Digits == <<"0", "1", "2", "3", "4", "5", "6", "7", "8", "9">>

DigitValue(c) == CHOOSE d \in 0..9 : Digits[d + 1] = c

IsDigit(c) == \E d \in 0..9 : Digits[d + 1] = c

\* String(n) of a non-negative integer, as a sequence of characters
RECURSIVE NatToString(_)
NatToString(n) ==
    IF n < 10 THEN <<Digits[n + 1]>>
    ELSE NatToString(n \div 10) \o <<Digits[(n % 10) + 1]>>

\* String(n) of an integer
NumberToString(n) == IF n < 0 THEN <<"-">> \o NatToString(-n) ELSE NatToString(n)

\* the value of the longest prefix of digits of s, continuing from acc
RECURSIVE DigitPrefix(_, _)
DigitPrefix(s, acc) ==
    IF s = <<>> \/ ~IsDigit(Head(s)) THEN acc
    ELSE DigitPrefix(Tail(s), 10 * acc + DigitValue(Head(s)))

\* parseInt(s): an optional sign, then the longest prefix of digits; NaN without a digit
parseInt(s) ==
    LET neg  == s # <<>> /\ Head(s) = "-"
        rest == IF s # <<>> /\ Head(s) \in {"-", "+"} THEN Tail(s) ELSE s
    IN  IF rest = <<>> \/ ~IsDigit(Head(rest)) THEN NaN
        ELSE IF neg THEN Num(-DigitPrefix(rest, 0)) ELSE Num(DigitPrefix(rest, 0))

\* the scroll offset window.scrollTo(0, y) leaves: NaN counts as 0, the page ends at MaxScroll
ScrollTarget(y) == IF y = NaN THEN 0 ELSE IF y[1] < 0 THEN 0 ELSE Min(y[1], MaxScroll)

(* ------------------------------- state -------------------------------- *)

VARIABLES
    page,        \* the drawer elements the document holds
    MobileMenu,  \* the MobileMenu state object
    dom,         \* classes, attributes and inline styles of the drawer elements and of body,
                 \* document.activeElement, whether the close button precedes the links
                 \* in the document (closeFirst), and whether the MutationObserver of
                 \* enhanceAccessibility is attached to the panel (observing)
    win,         \* window.innerWidth and window.scrollY (= window.pageYOffset)
    timers,      \* the pending setTimeout callbacks of the drawer; focus is the set of
                 \* the remaining times of the focus timers of toggle clicks, enhance
                 \* the remaining time of the enhanceAccessibility timer, anchor the
                 \* set of the remaining times of the scroll timers of anchor clicks
    listeners,   \* how many times the drawer listeners are registered (menu: the
                 \* function expressions of initMobileMenu's setup calls; outside and
                 \* resize: handleOutsideClick and handleMenuResize), and whether the
                 \* toggle and the close button are clones without listeners
    touch,       \* the element the finger in contact started on, or "none"
    obs          \* observations of the run, read by no handler:
                 \*   openY: window.scrollY when openMobileMenu last opened the drawer
                 \*   scrolledTo: <<y>> for the last window.scrollTo(0, y) since then, else <<>>
                 \*   release: <<dx, ms>> of the swipe the last step released, else <<>>
                 \*   resizeWhileAnimating: the pending debounce timer was armed by a
                 \*     resize event that arrived while MobileMenu.isAnimating
                 \*   move: <<[rightward, prevented]>> when the last step was a touchmove on
                 \*     the panel: whether the drag was rightward and more horizontal than
                 \*     vertical, and whether a listener called preventDefault; else <<>>
                 \*   threw: a drawer handler has ended in an uncaught exception
                 \*   crossed: a resize took the width from at most 768 to above 768 while
                 \*     MobileMenu.isOpen, and since then isOpen and the width above 768 have held

drawerVars == <<page, MobileMenu, dom, win, timers, listeners, touch, obs>>

VARIABLES
    fleetManager, \* window.fleetManager: the FleetManager fields, and where init() stands
    fleetDom,     \* the fleet markup: the elements the page holds, the content of
                  \* #carsGrid, the filter buttons and the active ones
    requests,     \* the backend calls of the fleet manager that are in flight
    fleetObs      \* observations of the run, read by no handler:
                  \*   issued: the number of fetchCars calls so far
                  \*   categoriesSource: where this.categories came from
                  \*   done: <<call>> when the last step completed a fetchCars call
                  \*   latest: this.cars and the grid as left by the completion of the
                  \*     latest-issued fetchCars call that has completed so far

fleetVars == <<fleetManager, fleetDom, requests, fleetObs>>

VARIABLES
    i18n,         \* the language switcher: dictionary, currentLang, localStorage
    i18nDom,      \* the translated markup: texts, placeholders, html lang, active button
    loads,        \* the loadDictionary calls in flight
    langObs       \* observations of the run, read by no handler:
                  \*   issued: the number of setLanguage calls so far
                  \*   applied: <<lang>> when the last step ran applyTranslations for
                  \*     the dictionary requested for lang
                  \*   last: the call whose loadDictionary resolved last, and the
                  \*     dictionary it resolved to
                  \*   reloaded: the page has been loaded again

langVars == <<i18n, i18nDom, loads, langObs>>

VARIABLES
    AppState,     \* the AppState object of the main script (the fields the viewport
                  \* handlers read or write)
    environment,  \* window.innerWidth, the prefers-reduced-motion media query, touch
                  \* support, screen.orientation, whether window.AOS is loaded,
                  \* navigator.onLine and navigator.connection ("absent" without the
                  \* API, "slow" for saveData or an effectiveType of slow-2g or 2g,
                  \* else "fast")
    bodyClass,    \* the viewport classes of body, its network-* classes (network) and
                  \* whether the video container carries the data-saver classes
    mainTimers,   \* the pending timers of the main script: the resize debounce and the
                  \* AOS.refresh timers of handleOrientationChange
    viewObs       \* observations of the run, read by no handler:
                  \*   sinceResize: the time since the last resize event the listener
                  \*     saw, up to 250 ms; NoTimer before the first
                  \*   runs: how many times handleResize ran since that event
                  \*   lastLine: the last of the online and offline events, else "none"
                  \*   notified: handleOffline has appended an offline notification
                  \*   burst: 1 when that event found no debounce timer pending, 2 when
                  \*     it came less than 250 ms after the resize event before it

viewVars == <<AppState, environment, bodyClass, mainTimers, viewObs>>

Toggle == "mobileMenuToggle"
Nav == "mobileNav"
CloseBtn == "mobileCloseBtn"
NavLink == "mobileNavLink"

AllElements == {Toggle, Nav, CloseBtn, NavLink}

\* the pages considered: every subset of the drawer elements may be missing
Pages == SUBSET AllElements

\* what document.activeElement may be besides the toggle and the close button: the
\* body, the first and the last .mobile-nav-link (a page with links has these two), and
\* a focusable element of the page outside the drawer
Body == "body"
FirstLink == "firstLink"
LastLink == "lastLink"
PageContent == "pageContent"

\* the state a handler reads and writes, as one record
World ==
    [page |-> page, mm |-> MobileMenu, dom |-> dom, win |-> win, tm |-> timers,
     reg |-> listeners, touch |-> touch, obs |-> obs, prevented |-> FALSE]

StillCrossed(w) == w.obs.crossed /\ w.mm.isOpen /\ w.win.innerWidth > MobileMaxWidth

\* Boolean.prototype.toString
BoolToString(b) == IF b THEN "true" ELSE "false"

\* the MutationObserver of enhanceAccessibility, delivered when the handlers of the step
\* have returned: if the class of the panel was written, the ARIA attributes follow its active class
mutationObserver(w) ==
    IF w.dom.observing /\ w.dom.navActive # dom.navActive
    THEN [w EXCEPT !.dom.ariaExpanded = IF Toggle \in w.page
                                          THEN BoolToString(w.dom.navActive) ELSE @,
                   !.dom.ariaHidden = BoolToString(~w.dom.navActive)]
    ELSE w

\* the variables after a step that leaves the drawer as w; release and move are what
\* the step observed of a swipe release and of a touchmove
Write(w, release, move) ==
    /\ page' = w.page
    /\ MobileMenu' = w.mm
    /\ dom' = mutationObserver(w).dom
    /\ win' = w.win
    /\ timers' = w.tm
    /\ listeners' = w.reg
    /\ touch' = w.touch
    /\ obs' = [w.obs EXCEPT !.release = release, !.move = move,
                            !.crossed = StillCrossed(w)]
    /\ UNCHANGED <<fleetVars, langVars, viewVars>>

Commit(w) == Write(w, <<>>, <<>>)

\* the step releases a swipe of displacement dx after ms milliseconds
CommitRelease(w, dx, ms) == Write(w, <<dx, ms>>, <<>>)

\* the step is a touchmove on the panel: a drag that is rightward and more horizontal
\* than vertical, or not
CommitMove(w, rightward) ==
    Write(w, <<>>, <<[rightward |-> rightward, prevented |-> w.prevented]>>)

\* the outcome of an event whose listener is registered n times (n <= 2): w0 is the
\* state before, w1 after one run of the listener, w2 after two runs
Dispatch(n, w0, w1, w2) == IF n = 0 THEN w0 ELSE IF n = 1 THEN w1 ELSE w2

Has(w, e) == e \in w.page

(* --------------------------- body scroll lock -------------------------- *)

\* the template literal `-${scrollY}px`
TopOf(scrollY) == <<"-">> \o NumberToString(scrollY) \o <<"p", "x">>

disableBodyScroll(w) ==
    [w EXCEPT !.dom.bodyPosition = "fixed",
              !.dom.bodyTop = TopOf(w.win.scrollY),
              !.dom.bodyOverflow = "hidden"]

\* variant: the offset is taken from MobileMenu.lastScrollPosition
RestoredOffset_lastScrollPosition(w) == Num(w.mm.lastScrollPosition)

\* the offset enableBodyScroll restores
RestoredOffset(w) ==
    Neg(parseInt(IF w.dom.bodyTop = <<>> THEN <<"0">> ELSE w.dom.bodyTop))

\* variant: body.style.position is not cleared
enableBodyScroll_keepsPosition(w) ==
    LET scrollY == RestoredOffset(w)
    IN  [w EXCEPT !.dom.bodyTop = <<>>,
                  !.dom.bodyOverflow = "",
                  !.win.scrollY = ScrollTarget(scrollY),
                  !.obs.scrolledTo = <<scrollY>>]

enableBodyScroll(w) ==
    LET scrollY == RestoredOffset(w)
    IN  [w EXCEPT !.dom.bodyPosition = "",
                  !.dom.bodyTop = <<>>,
                  !.dom.bodyOverflow = "",
                  !.win.scrollY = ScrollTarget(scrollY),
                  !.obs.scrolledTo = <<scrollY>>]

(* ------------------------ openMobileMenu / closeMobileMenu ------------- *)

AnimTimer(kind) == [kind |-> kind, rem |-> AnimationMs, detached |-> FALSE]

openMobileMenu(w) ==
    IF w.mm.isOpen \/ w.mm.isAnimating THEN w
    ELSE
        LET w1 == [w EXCEPT
                !.mm.isAnimating = TRUE,
                !.mm.isOpen = TRUE,
                !.mm.lastScrollPosition = w.win.scrollY,
                !.dom.toggleActive = IF Has(w, Toggle) THEN TRUE ELSE @,
                !.dom.overlayActive = TRUE,
                !.dom.navActive = IF Has(w, Nav) THEN TRUE ELSE @,
                !.dom.bodyMenuOpen = TRUE,
                !.dom.ariaExpanded = IF Has(w, Toggle) THEN "true" ELSE @,
                !.dom.ariaHidden = IF Has(w, Nav) THEN "false" ELSE @,
                !.obs.openY = w.win.scrollY,
                !.obs.scrolledTo = <<>>]
            w2 == disableBodyScroll(w1)
        IN  [w2 EXCEPT !.tm.anim = Append(@, AnimTimer("open"))]

\* closeMobileMenu past its guard
startClosing(w) ==
        LET w1 == [w EXCEPT
                !.mm.isAnimating = TRUE,
                !.dom.toggleActive = IF Has(w, Toggle) THEN FALSE ELSE @,
                !.dom.overlayActive = FALSE,
                !.dom.navActive = IF Has(w, Nav) THEN FALSE ELSE @,
                !.dom.bodyMenuOpen = FALSE,
                !.dom.ariaExpanded = IF Has(w, Toggle) THEN "false" ELSE @,
                !.dom.ariaHidden = IF Has(w, Nav) THEN "true" ELSE @]
            w2 == enableBodyScroll(w1)
        IN  [w2 EXCEPT !.tm.anim = Append(@, AnimTimer("close"))]

\* variant: the guard of closeMobileMenu forgets isAnimating
closeMobileMenu_noAnimatingGuard(w) == IF ~w.mm.isOpen THEN w ELSE startClosing(w)

\* variant: isOpen is cleared when the closing starts
closeMobileMenu_closedAtOnce(w) ==
    IF ~w.mm.isOpen \/ w.mm.isAnimating THEN w
    ELSE [startClosing(w) EXCEPT !.mm.isOpen = FALSE]

closeMobileMenu(w) == IF ~w.mm.isOpen \/ w.mm.isAnimating THEN w ELSE startClosing(w)

\* the callback of the 350ms timer of openMobileMenu
openTimerCallback(w) ==
    [w EXCEPT !.mm.isAnimating = FALSE,
              !.dom.activeElement = IF Has(w, CloseBtn) THEN CloseBtn ELSE @]

\* variant: the callback leaves isOpen set
closeTimerCallback_staysOpen(w) ==
    [w EXCEPT !.mm.isAnimating = FALSE,
              !.dom.activeElement = IF Has(w, Toggle) THEN Toggle ELSE @]

\* the callback of the 350ms timer of closeMobileMenu
closeTimerCallback(w) ==
    [w EXCEPT !.mm.isOpen = FALSE, !.mm.isAnimating = FALSE,
              !.dom.activeElement = IF Has(w, Toggle) THEN Toggle ELSE @]

\* the same callback when the toggle it captured has been replaced in the document:
\* focus() of an element outside the document moves no focus
closeTimerCallback_detached(w) ==
    [w EXCEPT !.mm.isOpen = FALSE, !.mm.isAnimating = FALSE]

\* the two beforeunload handlers. The one of the main script removes the
\* notifications and disconnects window.imageObserver; the one of the drawer replaces
\* the toggle and the close button by clones, which carry the attributes and none
\* of the listeners. Neither calls clearTimeout. The pending callbacks of
\* closeMobileMenu keep the toggle that was replaced.
beforeUnload(w) ==
    [w EXCEPT !.reg.cloned = TRUE,
              !.dom.activeElement = IF @ \in {Toggle, CloseBtn} THEN Body ELSE @,
              !.tm.anim = [i \in 1..Len(@) |->
                              [@[i] EXCEPT !.detached =
                                  @ \/ (w.tm.anim[i].kind = "close" /\ Has(w, Toggle))]]]

\* menuToggle click (setupKeyboardNavigation): the focus timer is armed
toggleFocusClick(w) == [w EXCEPT !.tm.focus = @ \cup {FocusDelayMs}]

\* variant: the callback returns focus to the toggle whatever the drawer state
focusTimerCallback_toggleOnly(w) == [w EXCEPT !.dom.activeElement = Toggle]

\* the callback of the focus timer of a toggle click
focusTimerCallback(w) ==
    IF w.mm.isOpen
    THEN [w EXCEPT !.dom.activeElement = IF Has(w, CloseBtn) THEN CloseBtn ELSE @]
    ELSE [w EXCEPT !.dom.activeElement = Toggle]

\* document keydown with e.key === 'Tab' (setupKeyboardNavigation): firstElement is the
\* first .mobile-nav-link, lastElement is the close button; focus() of an element the
\* page does not hold is a TypeError, raised after preventDefault
trapKey(w, shiftKey) ==
    IF ~w.mm.isOpen THEN w
    ELSE IF shiftKey
    THEN IF Has(w, NavLink) /\ w.dom.activeElement = FirstLink
         THEN IF Has(w, CloseBtn)
              THEN [w EXCEPT !.prevented = TRUE, !.dom.activeElement = CloseBtn]
              ELSE [w EXCEPT !.prevented = TRUE, !.obs.threw = TRUE]
         ELSE w
    ELSE IF Has(w, CloseBtn) /\ w.dom.activeElement = CloseBtn
         THEN IF Has(w, NavLink)
              THEN [w EXCEPT !.prevented = TRUE, !.dom.activeElement = FirstLink]
              ELSE [w EXCEPT !.prevented = TRUE, !.obs.threw = TRUE]
         ELSE w

\* the focusable elements in document order: the toggle, the drawer with its close
\* button before or after its links, the rest of the page
TabOrder(w) ==
    LET drawer == IF w.dom.closeFirst THEN <<CloseBtn, FirstLink, LastLink>>
                  ELSE <<FirstLink, LastLink, CloseBtn>>
        there(e) == IF e \in {FirstLink, LastLink} THEN Has(w, NavLink)
                    ELSE e = PageContent \/ Has(w, e)
    IN  SelectSeq(<<Toggle>> \o drawer \o <<PageContent>>, there)

\* the element sequential navigation moves focus to; past either end of the document
\* focus is nowhere in the page (the body)
NextFocus(order, current, shiftKey) ==
    LET at == IF \E i \in DOMAIN order : order[i] = current
              THEN CHOOSE i \in DOMAIN order : order[i] = current ELSE 0
        to == IF shiftKey THEN (IF at = 0 THEN Len(order) ELSE at - 1)
              ELSE (IF at = Len(order) THEN 0 ELSE at + 1)
    IN  IF to = 0 THEN Body ELSE order[to]

\* the default action of a Tab key press, unless a listener called preventDefault
defaultTab(w, shiftKey) ==
    IF w.prevented THEN w
    ELSE [w EXCEPT !.dom.activeElement = NextFocus(TabOrder(w), @, shiftKey)]

\* enhanceAccessibility: the ARIA attributes are set to their closed values and the
\* MutationObserver is attached to the panel
enhanceAccessibility(w) ==
    [w EXCEPT !.dom.ariaExpanded = IF Has(w, Toggle) THEN "false" ELSE @,
              !.dom.ariaHidden = IF Has(w, Nav) THEN "true" ELSE @,
              !.dom.observing = Has(w, Nav)]

\* window.mobileMenu.toggle
apiToggle(w) == IF w.mm.isOpen THEN closeMobileMenu(w) ELSE openMobileMenu(w)


(* ------------------------------ listeners ------------------------------ *)

\* menuToggle click (setupMenuEventListeners)
toggleClick(w) ==
    IF w.mm.isAnimating THEN w
    ELSE IF w.mm.isOpen THEN closeMobileMenu(w) ELSE openMobileMenu(w)

\* menuOverlay click, the overlay itself being the target
overlayClick(w) == IF w.mm.isOpen THEN closeMobileMenu(w) ELSE w

\* menuClose click
closeBtnClick(w) == closeMobileMenu(w)

\* click on a .mobile-nav-link whose href is not an in-page anchor
linkClick(w) == closeMobileMenu(w)

\* handleAnchorLinkClick: the drawer is asked to close and the scroll is put off
handleAnchorLinkClick(w) ==
    [closeMobileMenu(w) EXCEPT !.tm.anchor = @ \cup {AnchorScrollMs}]

\* click on a .mobile-nav-link whose href starts with '#'
anchorLinkClick(w) == handleAnchorLinkClick(w)

\* the callback of handleAnchorLinkClick's timer, the target element found and y its
\* computed position: window.scrollTo({top: y}). While the body is position: fixed with
\* overflow hidden the page has nothing to scroll and the offset stays as it is
anchorTimerCallback(w, y) ==
    IF w.dom.bodyPosition = "fixed" /\ w.dom.bodyOverflow = "hidden" THEN w
    ELSE [w EXCEPT !.win.scrollY = y]

\* document keydown with e.key === 'Escape'
escapeKey(w) == IF w.mm.isOpen THEN closeMobileMenu(w) ELSE w

\* document click outside the panel and the toggle
handleOutsideClick(w) ==
    IF w.mm.isOpen /\ Has(w, Nav) /\ Has(w, Toggle) THEN closeMobileMenu(w) ELSE w

\* mobileNav touchstart at (x, y)
navTouchStart(w, x, y) ==
    [w EXCEPT !.mm.touchStartX = x, !.mm.touchStartY = y, !.mm.touchStartTime = "set"]

Abs(n) == IF n < 0 THEN -n ELSE n

\* deltaX / menuWidth without Math.min, as the fraction <<numerator, denominator>>
swipeProgress_unclamped(deltaX, menuWidth) == <<deltaX, menuWidth>>

\* Math.min(deltaX / menuWidth, 1) for deltaX > 0, as the fraction <<numerator, denominator>>;
\* a division by 0 gives Infinity, whose minimum with 1 is 1
swipeProgress(deltaX, menuWidth) ==
    IF menuWidth = 0 \/ deltaX >= menuWidth THEN <<1, 1>> ELSE <<deltaX, menuWidth>>

\* mobileNav touchmove (setupMenuEventListeners): "prevent body scroll when menu is open"
navTouchMoveLock(w) == IF w.mm.isOpen THEN [w EXCEPT !.prevented = TRUE] ELSE w

\* mobileNav touchmove at (x, y) (setupSwipeGestures)
navTouchMove(w, x, y) ==
    IF ~w.mm.isOpen \/ w.mm.isAnimating THEN w
    ELSE
        LET deltaX == x - w.mm.touchStartX
            deltaY == Abs(y - w.mm.touchStartY)
        IN  IF Abs(deltaX) > deltaY /\ deltaX > 0
            THEN [w EXCEPT !.prevented = TRUE,
                           !.dom.navTransform = swipeProgress(deltaX, w.mm.menuWidth),
                           !.dom.overlayOpacity = swipeProgress(deltaX, w.mm.menuWidth)]
            ELSE w

\* velocity > 0.3 where velocity = deltaX / deltaTime; deltaTime is NaN when no touchstart
\* stored touchStartTime, and deltaX / 0 is Infinity, -Infinity or NaN by the sign of deltaX
isFlick(deltaX, deltaTime) ==
    IF deltaTime = NaN THEN FALSE
    ELSE IF deltaTime[1] = 0 THEN deltaX > 0
    ELSE FlickDen * deltaX > FlickNum * deltaTime[1]

\* variant: the velocity test is dropped
swipeCloses_distanceOnly(deltaX, deltaTime) == deltaX > SwipeThreshold

\* variant: a swipe of exactly the threshold closes
swipeCloses_atThreshold(deltaX, deltaTime) ==
    deltaX >= SwipeThreshold \/ isFlick(deltaX, deltaTime)

\* the swipe is released far or fast enough to close the drawer
swipeCloses(deltaX, deltaTime) == deltaX > SwipeThreshold \/ isFlick(deltaX, deltaTime)

\* variant: the touchend listener checks isOpen only
navTouchEnd_noAnimatingGuard(w, x, ms) ==
    IF ~w.mm.isOpen THEN w
    ELSE
        LET deltaX == x - w.mm.touchStartX
            deltaTime == IF w.mm.touchStartTime = "set" THEN Num(ms) ELSE NaN
            w1 == [w EXCEPT !.dom.navTransform = <<>>]
        IN  IF swipeCloses(deltaX, deltaTime) THEN closeMobileMenu(w1) ELSE w1

\* mobileNav touchend at x, ms milliseconds after the touchstart that stored touchStartTime
navTouchEnd(w, x, ms) ==
    IF ~w.mm.isOpen \/ w.mm.isAnimating THEN w
    ELSE
        LET deltaX == x - w.mm.touchStartX
            deltaTime == IF w.mm.touchStartTime = "set" THEN Num(ms) ELSE NaN
            w1 == [w EXCEPT !.dom.navTransform = <<>>]
        IN  IF swipeCloses(deltaX, deltaTime) THEN closeMobileMenu(w1) ELSE w1

\* menuOverlay touchstart at (x, y)
overlayTouchStart(w, x, y) == [w EXCEPT !.mm.touchStartX = x, !.mm.touchStartY = y]

\* menuOverlay touchend at x
overlayTouchEnd(w, x) ==
    IF x - w.mm.touchStartX > SwipeThreshold THEN closeMobileMenu(w) ELSE w

\* handleMenuResize, mobileNav.offsetWidth being offsetWidth
handleMenuResize(w, offsetWidth) ==
    LET w1 == IF Has(w, Nav) THEN [w EXCEPT !.mm.menuWidth = offsetWidth] ELSE w
    IN  IF w1.win.innerWidth > MobileMaxWidth /\ w1.mm.isOpen THEN closeMobileMenu(w1) ELSE w1

\* initMobileMenu, mobileNav.offsetWidth being offsetWidth. The listeners of
\* setupMenuEventListeners, setupSwipeGestures and setupKeyboardNavigation are function
\* expressions, new at every run, so a run adds one registration of each.
\* handleMenuResize and handleOutsideClick are passed by name: addEventListener
\* drops a listener that is already registered on the target, so they are registered
\* once however often initMobileMenu runs.
initMobileMenu(w, offsetWidth) ==
    IF ~Has(w, Toggle) \/ ~Has(w, Nav) THEN w
    ELSE [w EXCEPT
            !.mm.menuWidth = IF offsetWidth = 0 THEN DefaultMenuWidth ELSE offsetWidth,
            !.reg.menu = @ + 1,
            !.reg.resize = 1,
            !.reg.outside = IF w.win.innerWidth > MobileMaxWidth THEN 1 ELSE @]


(* ------------------------------- inputs -------------------------------- *)

\* viewport widths: the widest mobile width and the narrowest desktop width
Widths == {MobileMaxWidth, MobileMaxWidth + 1}


\* where a finger lands, <<clientX, clientY>>
TouchStarts == {<<100, 40>>}

\* horizontal displacements of a released swipe
EndDeltas == {-10, 0, 10, SwipeThreshold - 1, SwipeThreshold, SwipeThreshold + 1}

\* elapsed milliseconds between touchstart and touchend
Durations == {0, 100, 150, 163, 164, 200, 1000}

\* displacements <<dx, dy>> of a touchmove
MoveDeltas == {<<-10, 0>>, <<10, 0>>, <<10, 200>>, <<400, 200>>}

\* how many times initMobileMenu is scheduled at page load
InitCounts == {1, 2}

(* ------------------------------- actions ------------------------------- *)

\* the state at DOMContentLoaded; enhanced is the time left on the timer of
\* enhanceAccessibility, NoTimer when it ran before the drawer markup was parsed
InitDrawer(pages, layouts, counts, offsets, enhanced) ==
    /\ page \in pages
    /\ MobileMenu = [isOpen |-> FALSE, isAnimating |-> FALSE, touchStartX |-> 0,
                     touchStartY |-> 0, touchStartTime |-> "undefined",
                     menuWidth |-> 0, lastScrollPosition |-> 0]
    /\ \E closeFirst \in layouts :
          dom = [toggleActive |-> FALSE, overlayActive |-> FALSE, navActive |-> FALSE,
                 bodyMenuOpen |-> FALSE, ariaExpanded |-> "false", ariaHidden |-> "true",
                 navTransform |-> <<>>, overlayOpacity |-> <<>>,
                 bodyPosition |-> "", bodyTop |-> <<>>, bodyOverflow |-> "",
                 activeElement |-> Body, closeFirst |-> closeFirst, observing |-> FALSE]
    /\ \E width \in Widths, y \in offsets : win = [innerWidth |-> width, scrollY |-> y]
    /\ \E n \in counts, rem \in enhanced :
          timers = [anim |-> <<>>, resize |-> NoTimer, scroll |-> NoTimer,
                    init |-> [count |-> n, rem |-> InitDelayMs], focus |-> {},
                    enhance |-> rem, anchor |-> {}]
    /\ listeners = [menu |-> 0, outside |-> 0, resize |-> 0, cloned |-> FALSE]
    /\ touch = "none"
    /\ obs = [openY |-> 0, scrolledTo |-> <<>>, release |-> <<>>, move |-> <<>>,
              resizeWhileAnimating |-> FALSE, threw |-> FALSE, crossed |-> FALSE]

\* a setTimeout(initMobileMenu, 100) callback runs
InitTimerFire(offsetWidths) ==
    /\ timers.init.count > 0 /\ timers.init.rem = 0
    /\ \E offsetWidth \in offsetWidths :
          Commit(initMobileMenu([World EXCEPT !.tm.init.count = @ - 1], offsetWidth))

\* both click listeners of the toggle run, once per registration
ToggleClick ==
    /\ Has(World, Toggle) /\ listeners.menu > 0 /\ ~listeners.cloned
    /\ Commit(Dispatch(listeners.menu, World, toggleFocusClick(toggleClick(World)),
                       toggleFocusClick(toggleClick(toggleFocusClick(toggleClick(World))))))

\* the overlay's own listeners run first, then the click reaches document
OverlayClick ==
    /\ listeners.menu > 0
    /\ LET w == Dispatch(listeners.menu, World, overlayClick(World),
                         overlayClick(overlayClick(World)))
       IN  Commit(Dispatch(listeners.outside, w, handleOutsideClick(w),
                           handleOutsideClick(handleOutsideClick(w))))

CloseBtnClick ==
    /\ Has(World, CloseBtn) /\ listeners.menu > 0 /\ ~listeners.cloned
    /\ Commit(Dispatch(listeners.menu, World, closeBtnClick(World),
                       closeBtnClick(closeBtnClick(World))))

LinkClick ==
    /\ Has(World, NavLink) /\ listeners.menu > 0
    /\ Commit(Dispatch(listeners.menu, World, linkClick(World),
                       linkClick(linkClick(World))))

EscapeKey ==
    /\ listeners.menu > 0
    /\ Commit(Dispatch(listeners.menu, World, escapeKey(World),
                       escapeKey(escapeKey(World))))

\* a Tab key press, with or without Shift: the keydown listeners, then the default action
TabKey ==
    \E shiftKey \in BOOLEAN :
        LET w == Dispatch(listeners.menu, World, trapKey(World, shiftKey),
                          trapKey(trapKey(World, shiftKey), shiftKey))
        IN  Commit(defaultTab(w, shiftKey))

OutsideClick ==
    /\ listeners.outside > 0
    /\ Commit(Dispatch(listeners.outside, World, handleOutsideClick(World),
                       handleOutsideClick(handleOutsideClick(World))))

NavTouchStart ==
    /\ Has(World, Nav) /\ touch = "none"
    /\ \E p \in TouchStarts :
          LET w == [World EXCEPT !.touch = Nav]
          IN  Commit(Dispatch(listeners.menu, w, navTouchStart(w, p[1], p[2]),
                              navTouchStart(navTouchStart(w, p[1], p[2]), p[1], p[2])))

NavTouchMove(deltas) ==
    /\ touch = Nav
    /\ \E p \in TouchStarts, d \in deltas :
          LET x == p[1] + d[1]
              y == p[2] + d[2]
              run(w) == navTouchMove(navTouchMoveLock(w), x, y)
          IN  CommitMove(Dispatch(listeners.menu, World, run(World), run(run(World))),
                         Abs(d[1]) > Abs(d[2]) /\ d[1] > 0)

NavTouchEnd(deltas, durations) ==
    /\ touch = Nav
    /\ \E p \in TouchStarts, dx \in deltas, ms \in durations :
          LET x == p[1] + dx
              w == [World EXCEPT !.touch = "none"]
          IN  CommitRelease(Dispatch(listeners.menu, w, navTouchEnd(w, x, ms),
                                     navTouchEnd(navTouchEnd(w, x, ms), x, ms)), dx, ms)

OverlayTouchStart ==
    /\ listeners.menu > 0 /\ touch = "none"
    /\ \E p \in TouchStarts :
          LET w == [World EXCEPT !.touch = "overlay"]
          IN  Commit(Dispatch(listeners.menu, w, overlayTouchStart(w, p[1], p[2]),
                              overlayTouchStart(overlayTouchStart(w, p[1], p[2]), p[1], p[2])))

OverlayTouchEnd(deltas) ==
    /\ touch = "overlay"
    /\ \E p \in TouchStarts, dx \in deltas :
          LET x == p[1] + dx
              w == [World EXCEPT !.touch = "none"]
          IN  Commit(Dispatch(listeners.menu, w, overlayTouchEnd(w, x),
                              overlayTouchEnd(overlayTouchEnd(w, x), x)))

\* a resize event: the debounce listener, then handleMenuResize if it is registered
Resize(offsetWidths) ==
    \E width \in Widths, offsetWidth \in offsetWidths :
        LET w == [World EXCEPT !.win.innerWidth = width, !.tm.resize = ResizeDebounceMs,
                               !.obs.resizeWhileAnimating = MobileMenu.isAnimating,
                               !.obs.crossed = \/ @
                                               \/ /\ MobileMenu.isOpen
                                                  /\ win.innerWidth <= MobileMaxWidth
                                                  /\ width > MobileMaxWidth]
        IN  Commit(Dispatch(listeners.resize, w, handleMenuResize(w, offsetWidth),
                            handleMenuResize(handleMenuResize(w, offsetWidth), offsetWidth)))

\* the debounced setTimeout(handleMenuResize, 250) callback runs
ResizeTimerFire(offsetWidths) ==
    /\ timers.resize = 0
    /\ \E offsetWidth \in offsetWidths :
          Commit(handleMenuResize([World EXCEPT !.tm.resize = NoTimer,
                                                !.obs.resizeWhileAnimating = FALSE],
                                  offsetWidth))

\* the oldest due animation-completion timer runs
AnimTimerFire ==
    \E i \in 1..Len(timers.anim) :
        /\ timers.anim[i].rem = 0
        /\ \A j \in 1..(i - 1) : timers.anim[j].rem # 0
        /\ LET w == [World EXCEPT !.tm.anim =
                        SubSeq(@, 1, i - 1) \o SubSeq(@, i + 1, Len(@))]
           IN  Commit(IF timers.anim[i].kind = "open" THEN openTimerCallback(w)
                      ELSE IF timers.anim[i].detached THEN closeTimerCallback_detached(w)
                      ELSE closeTimerCallback(w))

\* a due focus timer runs
FocusTimerFire ==
    /\ 0 \in timers.focus
    /\ Commit(focusTimerCallback([World EXCEPT !.tm.focus = @ \ {0}]))

\* a click on an in-page anchor link of the drawer. The timers of the two
\* registrations are due together and scroll to the same target
AnchorLinkClick ==
    /\ Has(World, NavLink) /\ listeners.menu > 0
    /\ Commit(Dispatch(listeners.menu, World, anchorLinkClick(World),
                       anchorLinkClick(anchorLinkClick(World))))

\* a due scroll timer of an anchor click runs
AnchorTimerFire ==
    /\ 0 \in timers.anchor
    /\ \E y \in ScrollOffsets :
          Commit(anchorTimerCallback([World EXCEPT !.tm.anchor = @ \ {0}], y))

\* the setTimeout(enhanceAccessibility, 500) callback runs
EnhanceTimerFire ==
    /\ timers.enhance = 0
    /\ Commit(enhanceAccessibility([World EXCEPT !.tm.enhance = NoTimer]))

ApiOpen == Commit(openMobileMenu(World))

ApiClose == Commit(closeMobileMenu(World))

ApiToggle == Commit(apiToggle(World))

\* window.scrollY changes to y and the scroll listener arms the throttle timer
Scroll ==
    \E y \in ScrollOffsets :
        Commit([World EXCEPT !.win.scrollY = y,
                             !.tm.scroll = IF @ = NoTimer THEN ScrollThrottleMs ELSE @])

\* the throttled scroll callback runs
ScrollTimerFire ==
    /\ timers.scroll = 0
    /\ Commit([World EXCEPT !.mm.lastScrollPosition = win.scrollY, !.tm.scroll = NoTimer])

Elapse(rem) == IF rem = NoTimer THEN NoTimer ELSE rem - TimeStep

\* a timer that is due runs before the clock moves on
NoneDue ==
    /\ \A i \in 1..Len(timers.anim) : timers.anim[i].rem > 0
    /\ timers.resize # 0
    /\ timers.scroll # 0
    /\ timers.init.count > 0 => timers.init.rem > 0
    /\ 0 \notin timers.focus
    /\ timers.enhance # 0
    /\ 0 \notin timers.anchor

SomePending ==
    \/ timers.anim # <<>>
    \/ timers.focus # {}
    \/ timers.enhance # NoTimer
    \/ timers.anchor # {}
    \/ timers.resize # NoTimer
    \/ timers.scroll # NoTimer
    \/ timers.init.count > 0

\* TimeStep milliseconds pass
Tick ==
    /\ NoneDue /\ SomePending
    /\ Commit([World EXCEPT
            !.tm.anim = [i \in 1..Len(@) |-> [@[i] EXCEPT !.rem = @ - TimeStep]],
            !.tm.resize = Elapse(@),
            !.tm.scroll = Elapse(@),
            !.tm.init.rem = IF timers.init.count > 0 THEN @ - TimeStep ELSE @,
            !.tm.focus = {rem - TimeStep : rem \in @},
            !.tm.enhance = Elapse(@),
            !.tm.anchor = {rem - TimeStep : rem \in @}])

(* ---------------------------- fleet manager ---------------------------- *)

\* the fetchCars calls of a run
MaxRequests == 3

\* the filter value 'all'; the filter value of category n is Num(n)
All == <<>>

\* a JSON payload: a list of items, or anything else (an object, null)
Array(items) == [isArray |-> TRUE, items |-> items]
NotArray == [isArray |-> FALSE, items |-> <<>>]

Category(id, slug) == [id |-> id, slug |-> slug]

Car(id, categoryId) == [id |-> id, category_id |-> categoryId]

\* the categories Эконом, Комфорт and SUV, named by their slugs
getMockCategories ==
    Array(<<Category(1, "economy"), Category(2, "comfort"), Category(5, "suv")>>)

getCarsFromBotDatabase == <<>>

\* a response of the backend: a 2xx status with a JSON body, or a rejected fetch or a
\* status that is not 2xx
Ok(json) == [ok |-> TRUE, json |-> json]
Failed == [ok |-> FALSE, json |-> NotArray]

\* getJson throws unless the response is ok
getJson(res) == [threw |-> ~res.ok, value |-> res.json]

CategoryResponses ==
    {Failed, Ok(NotArray), Ok(Array(<<Category(1, "economy"), Category(5, "suv")>>))}

CarResponses ==
    {Failed, Ok(NotArray), Ok(Array(<<>>)), Ok(Array(<<Car(2, 5)>>)),
     Ok(Array(<<Car(1, 1), Car(2, 5)>>))}

\* the pages considered: the full markup, without .fleet-filters, without window.carAPI,
\* without #carsGrid
FullFleetPage == [carsGrid |-> TRUE, filtersContainer |-> TRUE, carAPI |-> TRUE]

FleetPages ==
    {FullFleetPage, [FullFleetPage EXCEPT !.filtersContainer = FALSE],
     [FullFleetPage EXCEPT !.carAPI = FALSE], [FullFleetPage EXCEPT !.carsGrid = FALSE]}

\* the content of #carsGrid
Grid(kind, cards, msg) == [kind |-> kind, cards |-> cards, msg |-> msg]
Markup == Grid("markup", <<>>, "")
Skeleton == Grid("skeleton", <<>>, "")
createNoCarsMessage == Grid("no-cars", <<>>, "")

FleetWorld == [fm |-> fleetManager, dom |-> fleetDom, req |-> requests, obs |-> fleetObs]

\* a step of the fleet manager; done is <<call>> when it completes a fetchCars call
CommitFleet(w, done) ==
    /\ fleetManager' = w.fm
    /\ fleetDom' = w.dom
    /\ requests' = w.req
    /\ fleetObs' = [w.obs EXCEPT !.done = done]
    /\ UNCHANGED <<drawerVars, langVars, viewVars>>

showSkeleton(w) == [w EXCEPT !.dom.carsGrid = Skeleton]

\* the messages of init() and of fetchCars() are written "fleet load error" and
\* "could not load cars"
showError(w, msg) == [w EXCEPT !.dom.carsGrid = Grid("error", <<>>, msg)]

\* this.categories.find(c => c.id === car.category_id): the first match
FindCategory(items, id) ==
    LET hits == {i \in DOMAIN items : items[i].id = id}
    IN  IF hits = {} THEN <<>>
        ELSE <<items[CHOOSE i \in hits : \A j \in hits : i <= j]>>

\* the card of a car: its id, its category and the badge (cat?.name || dash)
createCarCard(categories, car) ==
    LET cat == FindCategory(categories.items, car.category_id)
    IN  [id |-> car.id, category_id |-> car.category_id,
         badge |-> IF cat = <<>> THEN "-" ELSE cat[1].slug]

\* renderCars throws when createCarCard reads this.categories.find of a value that
\* is not a list
renderCarsThrows(w) == w.fm.cars # <<>> /\ ~w.fm.categories.isArray

renderCars(w) ==
    IF w.fm.cars = <<>> THEN [w EXCEPT !.dom.carsGrid = createNoCarsMessage]
    ELSE [w EXCEPT !.dom.carsGrid =
             Grid("cards",
                  [i \in DOMAIN w.fm.cars |-> createCarCard(w.fm.categories, w.fm.cars[i])],
                  "")]

\* all.filter(c => c.category_id === Number(categoryId))
RECURSIVE FilterByCategory(_, _)
FilterByCategory(cars, n) ==
    IF cars = <<>> THEN <<>>
    ELSE (IF Head(cars).category_id = n THEN <<Head(cars)>> ELSE <<>>)
         \o FilterByCategory(Tail(cars), n)

\* fetchCars up to its await: the busy flag is set and the call is in flight
fetchCars(w, categoryId, caller) ==
    [w EXCEPT !.fm.isLoading = TRUE,
              !.req.cars = Append(@, [seq |-> w.obs.issued + 1, categoryId |-> categoryId,
                                      caller |-> caller]),
              !.obs.issued = @ + 1]

\* what the awaited part of fetchCars yields for the call: the body carAPI.getCars
\* resolves to (or its exception), and without carAPI the filtered local list
awaitedCars(w, call, res) ==
    IF w.dom.page.carAPI THEN getJson(res)
    ELSE [threw |-> FALSE,
          value |-> Array(IF call.categoryId = All THEN getCarsFromBotDatabase
                          ELSE FilterByCategory(getCarsFromBotDatabase,
                                                call.categoryId[1]))]

\* this.cars = Array.isArray(cars) ? cars : []
coerceCars(value) == IF value.isArray THEN value.items ELSE <<>>

\* a fetchCars whose catch only logs: a failed call leaves the grid as it was
fetchCarsResumed_silentCatch(w, i, res) ==
    LET call == w.req.cars[i]
        got  == awaitedCars(w, call, res)
        w1   == [w EXCEPT !.req.cars = SubSeq(@, 1, i - 1) \o SubSeq(@, i + 1, Len(@))]
        w2   == IF got.threw THEN w1
                ELSE LET w3 == [w1 EXCEPT !.fm.cars = coerceCars(got.value)]
                     IN  IF renderCarsThrows(w3) THEN w3 ELSE renderCars(w3)
    IN  [w2 EXCEPT !.fm.isLoading = FALSE,
                   !.fm.pc = IF call.caller = "init" THEN "ready" ELSE @]

\* fetchCars from its await on, for the i-th call in flight and the response res
fetchCarsResumed(w, i, res) ==
    LET call == w.req.cars[i]
        got  == awaitedCars(w, call, res)
        w1   == [w EXCEPT !.req.cars = SubSeq(@, 1, i - 1) \o SubSeq(@, i + 1, Len(@))]
        w2   == IF got.threw THEN showError(w1, "could not load cars")
                ELSE LET w3 == [w1 EXCEPT !.fm.cars = coerceCars(got.value)]
                     IN  IF renderCarsThrows(w3) THEN showError(w3, "could not load cars")
                         ELSE renderCars(w3)
        w4   == [w2 EXCEPT !.fm.isLoading = FALSE,
                           !.fm.pc = IF call.caller = "init" THEN "ready" ELSE @]
    IN  [w4 EXCEPT !.obs.latest =
            IF call.seq >= @.seq
            THEN [seq |-> call.seq, cars |-> w4.fm.cars, grid |-> w4.dom.carsGrid]
            ELSE @]

\* the call the completion of fetchCarsResumed(w, i, res) reports
completed(w, i, res) ==
    [seq |-> w.req.cars[i].seq, categoryId |-> w.req.cars[i].categoryId,
     ok |-> ~awaitedCars(w, w.req.cars[i], res).threw]

\* createCategoryFilters throws at this.categories.forEach of a value that is not a list
createCategoryFiltersThrows(w) == w.dom.page.filtersContainer /\ ~w.fm.categories.isArray

\* the buttons createCategoryFilters leaves: 'all', active, then one per category
createCategoryFilters(w) ==
    IF ~w.dom.page.filtersContainer THEN w
    ELSE [w EXCEPT !.dom.buttons =
                       <<All>> \o [i \in DOMAIN w.fm.categories.items |->
                                       Num(w.fm.categories.items[i].id)],
                   !.dom.active = {All}]

\* init() after await this.loadCategories(): the filters, then loadAllCars
initResumed(w) ==
    LET w1 == createCategoryFilters(w)
    IN  IF createCategoryFiltersThrows(w)
        THEN showError([w1 EXCEPT !.fm.pc = "error"], "fleet load error")
        ELSE fetchCars(showSkeleton([w1 EXCEPT !.fm.pc = "loadAllCars"]), All, "init")

\* loadCategories leaves the fallback list where the page has no window.carAPI
loadCategories_noApi(w) ==
    [w EXCEPT !.fm.categories = getMockCategories, !.obs.categoriesSource = "fallback"]

\* the catch of loadCategories drops the failure and leaves no categories
loadCategoriesResumed_noFallback(w, res) ==
    LET got == getJson(res)
    IN  IF got.threw
        THEN [w EXCEPT !.req.categories = FALSE, !.fm.categories = Array(<<>>),
                       !.obs.categoriesSource = "fallback"]
        ELSE [w EXCEPT !.req.categories = FALSE, !.fm.categories = got.value,
                       !.obs.categoriesSource = "backend"]

\* loadCategories from its await on: the body of the response, the fallback list
\* when getCategories has thrown
loadCategoriesResumed(w, res) ==
    LET got == getJson(res)
    IN  IF got.threw
        THEN [w EXCEPT !.req.categories = FALSE, !.fm.categories = getMockCategories,
                       !.obs.categoriesSource = "fallback"]
        ELSE [w EXCEPT !.req.categories = FALSE, !.fm.categories = got.value,
                       !.obs.categoriesSource = "backend"]

\* init() up to its first await
init(w) ==
    IF ~w.dom.page.carsGrid THEN [w EXCEPT !.fm.pc = "noGrid"]
    ELSE LET w1 == [w EXCEPT !.fm.carsGrid = TRUE,
                             !.fm.filtersContainer = w.dom.page.filtersContainer]
         IN  IF w.dom.page.carAPI
             THEN [w1 EXCEPT !.fm.pc = "loadCategories", !.req.categories = TRUE]
             ELSE initResumed(loadCategories_noApi(w1))

\* an onFilterClick without the test of the busy flag
onFilterClick_noBusyTest(w, id) ==
    fetchCars(showSkeleton([w EXCEPT !.fm.currentCategoryId = id, !.dom.active = {id}]),
              id, "click")

onFilterClick(w, id) ==
    IF w.fm.isLoading THEN w
    ELSE fetchCars(showSkeleton([w EXCEPT !.fm.currentCategoryId = id,
                                          !.dom.active = {id}]),
                   id, "click")

InitFleet(pages) ==
    /\ fleetManager = [carsGrid |-> FALSE, filtersContainer |-> FALSE,
                       currentCategoryId |-> All, cars |-> <<>>,
                       categories |-> Array(<<>>), isLoading |-> FALSE, pc |-> "start"]
    /\ \E p \in pages :
          fleetDom = [page |-> p, carsGrid |-> Markup, buttons |-> <<>>, active |-> {}]
    /\ requests = [categories |-> FALSE, cars |-> <<>>]
    /\ fleetObs = [issued |-> 0, categoriesSource |-> "none", done |-> <<>>,
                   latest |-> [seq |-> 0, cars |-> <<>>, grid |-> Markup]]

\* DOMContentLoaded: window.fleetManager = new FleetManager(); init()
FleetInit ==
    /\ fleetManager.pc = "start"
    /\ CommitFleet(init(FleetWorld), <<>>)

\* the categories request completes
CategoriesArrive ==
    /\ requests.categories
    /\ \E res \in CategoryResponses :
          CommitFleet(initResumed(loadCategoriesResumed(FleetWorld, res)), <<>>)

\* a click on a filter button
FilterClick ==
    /\ fleetObs.issued < MaxRequests
    /\ \E i \in DOMAIN fleetDom.buttons :
          CommitFleet(onFilterClick(FleetWorld, fleetDom.buttons[i]), <<>>)

\* a script of the page calls window.fleetManager.fetchCars, for 'all' or category 5
DirectFetchCars ==
    /\ fleetManager.pc \in {"loadAllCars", "ready"}
    /\ fleetObs.issued < MaxRequests
    /\ \E id \in {All, Num(5)} : CommitFleet(fetchCars(FleetWorld, id, "direct"), <<>>)

\* a carAPI.getCars call completes: any call in flight, with any response
CarsArrive ==
    /\ fleetDom.page.carAPI
    /\ \E i \in DOMAIN requests.cars, res \in CarResponses :
          CommitFleet(fetchCarsResumed(FleetWorld, i, res),
                      <<completed(FleetWorld, i, res)>>)

\* without carAPI: the 400 ms timer of the oldest call in flight runs out
MockDelayElapse ==
    /\ ~fleetDom.page.carAPI
    /\ requests.cars # <<>>
    /\ CommitFleet(fetchCarsResumed(FleetWorld, 1, Failed),
                   <<completed(FleetWorld, 1, Failed)>>)

(* --------------------------- language switcher -------------------------- *)

\* the setLanguage calls of a run
MaxLangRequests == 3

DEFAULT_LANG == "ru"
Langs == {"ru", "en"}

\* JSON values and undefined; a string is its sequence of characters, an object maps
\* property names (sequences of characters) to values
JString(chars) == [type |-> "string", chars |-> chars]
JNumber(n) == [type |-> "number", n |-> n]
JObject(fields) == [type |-> "object", fields |-> fields]
JNull == [type |-> "null"]
Undefined == [type |-> "undefined"]

\* typeof val === 'string'
IsString(val) == val.type = "string"

\* the truthiness of a value
Truthy(val) ==
    CASE val.type = "object" -> TRUE
      [] val.type = "string" -> val.chars # <<>>
      [] val.type = "number" -> val.n # 0
      [] OTHER -> FALSE

\* path.split('.'): the segments between the dots, cur being the segment in progress
RECURSIVE SplitDots(_, _)
SplitDots(s, cur) ==
    IF s = <<>> THEN <<cur>>
    ELSE IF Head(s) = "." THEN <<cur>> \o SplitDots(Tail(s), <<>>)
    ELSE SplitDots(Tail(s), Append(cur, Head(s)))

split(path) == SplitDots(path, <<>>)

\* acc[key] for the values considered: an own property of an object, the length or
\* a character of a string; undefined otherwise
Property(acc, key) ==
    CASE acc.type = "object" ->
            IF key \in DOMAIN acc.fields THEN acc.fields[key] ELSE Undefined
      [] acc.type = "string" ->
            IF key = <<"l", "e", "n", "g", "t", "h">> THEN JNumber(Len(acc.chars))
            ELSE IF Len(key) = 1 /\ IsDigit(key[1]) /\ DigitValue(key[1]) < Len(acc.chars)
            THEN JString(<<acc.chars[DigitValue(key[1]) + 1]>>)
            ELSE Undefined
      [] OTHER -> Undefined

\* the reduce of get, over the segments that are left
RECURSIVE Reduce(_, _)
Reduce(acc, keys) ==
    IF keys = <<>> THEN acc
    ELSE Reduce(IF Truthy(acc) /\ Property(acc, Head(keys)) # Undefined
                THEN Property(acc, Head(keys)) ELSE Undefined,
                Tail(keys))

get(obj, path) == Reduce(obj, split(path))

\* the keys of the markup: data-i18n of the nav link and of the title element,
\* data-i18n-placeholder of the name input
KeyNavHome == <<"n", "a", "v", ".", "h", "o", "m", "e">>
KeyTitle == <<"t", "i", "t", "l", "e">>
KeyFormName == <<"f", "o", "r", "m", ".", "n", "a", "m", "e">>

DataI18n == [navHome |-> KeyNavHome, title |-> KeyTitle]
DataI18nPlaceholder == [nameInput |-> KeyFormName]

\* the locale files the server may hold. ru.json is complete; en.json is complete,
\* or lacks nav.home and title, or holds values that are not strings (nav is a string,
\* form.name a number, title null), or is the JSON document null
RuFull ==
    JObject((<<"n", "a", "v">> :> JObject(<<"h", "o", "m", "e">> :> JString(<<"G", "l">>)))
            @@ (<<"f", "o", "r", "m">> :> JObject(<<"n", "a", "m", "e">> :> JString(<<"I", "m">>)))
            @@ (KeyTitle :> JString(<<"A", "r">>)))

EnFull ==
    JObject((<<"n", "a", "v">> :> JObject(<<"h", "o", "m", "e">> :> JString(<<"H", "o">>)))
            @@ (<<"f", "o", "r", "m">> :> JObject(<<"n", "a", "m", "e">> :> JString(<<"N", "a">>)))
            @@ (KeyTitle :> JString(<<"R", "e">>)))

EnPartial ==
    JObject((<<"n", "a", "v">> :> JObject(<<"n", "a", "m", "e">> :> JString(<<"N", "v">>)))
            @@ (<<"f", "o", "r", "m">> :> JObject(<<"n", "a", "m", "e">> :> JString(<<"N", "a">>))))

EnOdd ==
    JObject((<<"n", "a", "v">> :> JString(<<"M", "e">>))
            @@ (<<"f", "o", "r", "m">> :> JObject(<<"n", "a", "m", "e">> :> JNumber(7)))
            @@ (KeyTitle :> JNull))

Dictionaries == [ru |-> {RuFull}, en |-> {EnFull, EnPartial, EnOdd, JNull}]

\* the responses to GET /locales/<lang>.json: a dictionary, or a failure (a rejected
\* fetch, a status that is not 2xx, a body that is not JSON)
LocaleResponses(lang) == {[ok |-> FALSE, json |-> JNull]} \cup {Ok(d) : d \in Dictionaries[lang]}

\* the text of the markup before any translation
MarkupText == <<"M">>

LangWorld == [i18n |-> i18n, dom |-> i18nDom, loads |-> loads, obs |-> langObs]

\* a step of the language switcher; applied is <<lang>> when it ran applyTranslations
CommitLang(w, applied) ==
    /\ i18n' = w.i18n
    /\ i18nDom' = w.dom
    /\ loads' = w.loads
    /\ langObs' = [w.obs EXCEPT !.applied = applied]
    /\ UNCHANGED <<drawerVars, fleetVars, viewVars>>

\* a translated node blanked when its key resolves to no string
translated_blanking(val, old) == IF IsString(val) THEN val.chars ELSE <<>>

\* if (typeof val === 'string') el.textContent = val
translated(val, old) == IF IsString(val) THEN val.chars ELSE old

applyTranslations(w) ==
    IF ~Truthy(w.i18n.dictionary) THEN w
    ELSE [w EXCEPT
            !.dom.text = [el \in DOMAIN @ |->
                             translated(get(w.i18n.dictionary, DataI18n[el]), @[el])],
            !.dom.placeholder = [el \in DOMAIN @ |->
                             translated(get(w.i18n.dictionary, DataI18nPlaceholder[el]),
                                        @[el])],
            !.dom.htmlLang = w.i18n.currentLang]

\* a setLanguage that leaves localStorage alone
setLanguage_noStore(w, lang) ==
    [w EXCEPT !.i18n.currentLang = lang,
              !.dom.active = {lang},
              !.loads = Append(@, [seq |-> w.obs.issued + 1, lang |-> lang]),
              !.obs.issued = @ + 1]

\* setLanguage up to its await
setLanguage(w, lang) ==
    [w EXCEPT !.i18n.currentLang = lang,
              !.i18n.storage = <<lang>>,
              !.dom.active = {lang},
              !.loads = Append(@, [seq |-> w.obs.issued + 1, lang |-> lang]),
              !.obs.issued = @ + 1]

\* variant: a response to a call that is not the latest issued is dropped
setLanguageResumed_ignoresStale(w, i, res) ==
    LET w1 == [w EXCEPT !.loads = SubSeq(@, 1, i - 1) \o SubSeq(@, i + 1, Len(@))]
    IN  IF res.ok /\ w.loads[i].seq = w.obs.issued
        THEN applyTranslations([w1 EXCEPT !.i18n.dictionary = res.json])
        ELSE w1

\* variant: a failed load resets the dictionary and the lang attribute
setLanguageResumed_resetsOnError(w, i, res) ==
    LET w1 == [w EXCEPT !.loads = SubSeq(@, 1, i - 1) \o SubSeq(@, i + 1, Len(@))]
    IN  IF res.ok THEN applyTranslations([w1 EXCEPT !.i18n.dictionary = res.json])
        ELSE [w1 EXCEPT !.i18n.dictionary = JNull, !.dom.htmlLang = DEFAULT_LANG]

\* setLanguage from its await on, for the i-th load in flight and the response res
setLanguageResumed(w, i, res) ==
    LET w1 == [w EXCEPT !.loads = SubSeq(@, 1, i - 1) \o SubSeq(@, i + 1, Len(@))]
    IN  IF res.ok THEN applyTranslations([w1 EXCEPT !.i18n.dictionary = res.json])
        ELSE w1

\* the values of localStorage.getItem('lang') at page load
SavedLangs == {<<>>, <<"ru">>, <<"en">>}

InitLang(saved) ==
    /\ \E s \in saved :
          i18n = [dictionary |-> JNull, currentLang |-> DEFAULT_LANG, storage |-> s,
                  ready |-> FALSE]
    /\ i18nDom = [text |-> [navHome |-> MarkupText, title |-> MarkupText],
                  placeholder |-> [nameInput |-> MarkupText],
                  htmlLang |-> DEFAULT_LANG, active |-> {}]
    /\ loads = <<>>
    /\ langObs = [issued |-> 0, applied |-> <<>>, last |-> [seq |-> 0, json |-> JNull],
                  reloaded |-> FALSE]

\* DOMContentLoaded: the buttons get their listeners, setLanguage(saved || DEFAULT_LANG)
LangInit ==
    /\ ~i18n.ready
    /\ CommitLang(setLanguage([LangWorld EXCEPT !.i18n.ready = TRUE],
                              IF i18n.storage = <<>> THEN DEFAULT_LANG
                              ELSE i18n.storage[1]),
                  <<>>)

\* a click on a .lang-btn
LangClick ==
    /\ i18n.ready
    /\ langObs.issued < MaxLangRequests
    /\ \E lang \in Langs : CommitLang(setLanguage(LangWorld, lang), <<>>)

\* the page is loaded again: the script starts over (dictionary null, currentLang
\* 'ru', the markup as served), the loads of the page before are abandoned and
\* localStorage is kept
LangReload ==
    /\ i18n.ready
    /\ langObs.issued < MaxLangRequests
    /\ CommitLang([LangWorld EXCEPT
                      !.i18n = [dictionary |-> JNull, currentLang |-> DEFAULT_LANG,
                                storage |-> @.storage, ready |-> FALSE],
                      !.dom = [text |-> [navHome |-> MarkupText, title |-> MarkupText],
                               placeholder |-> [nameInput |-> MarkupText],
                               htmlLang |-> DEFAULT_LANG, active |-> {}],
                      !.loads = <<>>,
                      !.obs.reloaded = TRUE],
                  <<>>)

\* the responses of a server whose locale files all hold an object
LocaleObjects == [lang \in Langs |-> {Ok(d) : d \in Dictionaries[lang] \ {JNull}}]

\* a loadDictionary call completes: any load in flight, with any of the responses
\* to a request for its language
DictionaryArriveFrom(responses) ==
    /\ \E i \in DOMAIN loads :
          \E res \in responses[loads[i].lang] :
             CommitLang([setLanguageResumed(LangWorld, i, res) EXCEPT
                            !.obs.last = IF res.ok
                                         THEN [seq |-> loads[i].seq, json |-> res.json]
                                         ELSE @],
                        IF res.ok THEN <<loads[i].lang>> ELSE <<>>)

\* a loadDictionary call completes with any response, a failure included
DictionaryArrive == DictionaryArriveFrom([lang \in Langs |-> LocaleResponses(lang)])

(* --------------------------- viewport detector ------------------------- *)

\* the window widths considered: one in xs, the edge 768 (mobile, lg), the edge 1024
\* (tablet, xl) and one in 2xl
ViewWidths == {320, 768, 1024, 1500}

\* the values of AppState.networkStatus, each the suffix of a network-* class
NetworkStatuses == {"good", "slow", "offline"}

\* the if-chain of detectDeviceCapabilities and of handleResize
breakpointOf(w) ==
    IF w < 375 THEN "xs"
    ELSE IF w < 568 THEN "sm"
    ELSE IF w < 768 THEN "md"
    ELSE IF w < 1024 THEN "lg"
    ELSE IF w < 1440 THEN "xl"
    ELSE "2xl"

ViewWorld ==
    [app |-> AppState, env |-> environment, body |-> bodyClass, timers |-> mainTimers,
     obs |-> viewObs]

CommitView(v) ==
    /\ AppState' = v.app
    /\ environment' = v.env
    /\ bodyClass' = v.body
    /\ mainTimers' = v.timers
    /\ viewObs' = v.obs
    /\ UNCHANGED <<drawerVars, fleetVars, langVars>>

\* detectDeviceCapabilities: the device type, the breakpoint and the capabilities are
\* read from the environment; the body classes are added, none is removed
detectDeviceCapabilities(v) ==
    LET w   == v.env.innerWidth
        app == [v.app EXCEPT !.isMobile = w <= 768,
                             !.isTablet = w > 768 /\ w <= 1024,
                             !.isDesktop = w > 1024,
                             !.currentBreakpoint = breakpointOf(w),
                             !.prefersReducedMotion = v.env.reducedMotion,
                             !.isTouchDevice = v.env.touch]
    IN  [v EXCEPT !.app = app,
                  !.body.mobile = @ \/ app.isMobile,
                  !.body.tablet = @ \/ app.isTablet,
                  !.body.desktop = @ \/ app.isDesktop,
                  !.body.touch = @ \/ app.isTouchDevice,
                  !.body.reducedMotion = @ \/ app.prefersReducedMotion,
                  !.body.breakpoints = @ \cup {app.currentBreakpoint}]

\* updateNetworkStatus: the three network classes are removed, the one of the status
\* is added, and the video container gets or loses its data-saver classes
updateNetworkStatus(v) ==
    [v EXCEPT !.body.network = (@ \ NetworkStatuses) \cup {v.app.networkStatus},
              !.body.dataSaver = v.app.networkStatus \in {"slow", "offline"}]

\* initNetworkMonitoring: the status from navigator.onLine, then "slow" for a slow
\* connection; the online, offline and change listeners are registered
initNetworkMonitoring(v) ==
    LET v1 == updateNetworkStatus(
                  [v EXCEPT !.app.networkStatus = IF v.env.onLine THEN "good" ELSE "offline"])
    IN  IF v.env.connection = "slow"
        THEN updateNetworkStatus([v1 EXCEPT !.app.networkStatus = "slow"])
        ELSE v1

handleOnline(v) == updateNetworkStatus([v EXCEPT !.app.networkStatus = "good"])

\* showOfflineNotification: on a mobile or tablet a notification is appended to body
showOfflineNotification(v) ==
    IF v.app.isMobile \/ v.app.isTablet THEN [v EXCEPT !.obs.notified = TRUE] ELSE v

handleOffline(v) ==
    showOfflineNotification(updateNetworkStatus([v EXCEPT !.app.networkStatus = "offline"]))

handleConnectionChange(v) ==
    updateNetworkStatus(
        [v EXCEPT !.app.networkStatus = IF v.env.connection = "slow" THEN "slow" ELSE "good"])

\* the DOMContentLoaded handler of the main script: detectDeviceCapabilities,
\* initNetworkMonitoring, then initViewportManagement registers the orientationchange
\* and the resize listener
mainInit(v) ==
    [initNetworkMonitoring(detectDeviceCapabilities(v)) EXCEPT !.app.initialized = TRUE]

\* a resize listener that leaves a pending timer as it is, without clearTimeout
resizeListener_keepsTimer(v) ==
    IF ~v.app.initialized THEN v
    ELSE [v EXCEPT !.timers.resize = IF @ = NoTimer THEN ResizeDebounceMs ELSE @,
                   !.obs.sinceResize = 0, !.obs.runs = 0,
                   !.obs.burst = IF v.timers.resize = NoTimer THEN 1 ELSE 2]

\* the resize listener of initViewportManagement: clearTimeout(resizeTimeout);
\* resizeTimeout = setTimeout(handleResize, 250)
resizeListener(v) ==
    IF ~v.app.initialized THEN v
    ELSE [v EXCEPT !.timers.resize = ResizeDebounceMs,
                   !.obs.sinceResize = 0, !.obs.runs = 0,
                   !.obs.burst = IF v.timers.resize = NoTimer THEN 1 ELSE 2]

\* a handleResize that adds the class of the new breakpoint and removes none
handleResize_keepsClass(v) ==
    LET w  == v.env.innerWidth
        nb == breakpointOf(w)
        v1 == IF nb # v.app.currentBreakpoint
              THEN [v EXCEPT !.app.currentBreakpoint = nb, !.body.breakpoints = @ \cup {nb}]
              ELSE v
    IN  [v1 EXCEPT !.app.isMobile = w <= 768,
                   !.app.isTablet = w > 768 /\ w <= 1024,
                   !.app.isDesktop = w > 1024,
                   !.body.mobile = w <= 768,
                   !.body.tablet = w > 768 /\ w <= 1024,
                   !.body.desktop = w > 1024]

\* handleResize: the breakpoint and its body class when the breakpoint changed, then
\* the device type and its body classes. The branch that closes the menu needs
\* AppState.isMenuOpen, which only AppUtils.updateMenuState sets and nothing calls.
handleResize(v) ==
    LET w  == v.env.innerWidth
        nb == breakpointOf(w)
        v1 == IF nb # v.app.currentBreakpoint
              THEN [v EXCEPT !.app.currentBreakpoint = nb, !.body.breakpoints = {nb}]
              ELSE v
    IN  [v1 EXCEPT !.app.isMobile = w <= 768,
                   !.app.isTablet = w > 768 /\ w <= 1024,
                   !.app.isDesktop = w > 1024,
                   !.body.mobile = w <= 768,
                   !.body.tablet = w > 768 /\ w <= 1024,
                   !.body.desktop = w > 1024]

\* the callback of the debounce timer
resizeTimerCallback(v) ==
    [handleResize(v) EXCEPT !.timers.resize = NoTimer, !.obs.runs = @ + 1]

\* handleOrientationChange: the orientation class of body, and with window.AOS a
\* timer of 300 ms for AOS.refresh
handleOrientationChange(v) ==
    IF ~v.app.initialized THEN v
    ELSE [v EXCEPT !.body.landscape = v.env.landscape,
                   !.body.portrait = ~v.env.landscape,
                   !.timers.aos = IF v.env.AOS THEN @ \cup {AosRefreshMs} ELSE @]

\* the page as loaded: AppState as the script declares it, no class on body
InitViewportOn(widths, motions, touches, aos, lines, connections) ==
    /\ AppState = [isMobile |-> FALSE, isTablet |-> FALSE, isDesktop |-> FALSE,
                   prefersReducedMotion |-> FALSE, isTouchDevice |-> FALSE,
                   currentBreakpoint |-> "desktop", isMenuOpen |-> FALSE,
                   networkStatus |-> "good", initialized |-> FALSE]
    /\ \E w \in widths, m \in motions, t \in touches, a \in aos,
          l \in lines, c \in connections :
          environment = [innerWidth |-> w, reducedMotion |-> m, touch |-> t,
                         landscape |-> FALSE, AOS |-> a, onLine |-> l, connection |-> c]
    /\ bodyClass = [mobile |-> FALSE, tablet |-> FALSE, desktop |-> FALSE,
                    touch |-> FALSE, reducedMotion |-> FALSE, breakpoints |-> {},
                    landscape |-> FALSE, portrait |-> FALSE, network |-> {},
                    dataSaver |-> FALSE]
    /\ mainTimers = [resize |-> NoTimer, aos |-> {}]
    /\ viewObs = [sinceResize |-> NoTimer, runs |-> 0, burst |-> 0, lastLine |-> "none",
                  notified |-> FALSE]

\* the page loaded online by a browser without navigator.connection
InitViewport(widths, motions, touches, aos) ==
    InitViewportOn(widths, motions, touches, aos, {TRUE}, {"absent"})

\* the viewport detector of the specifications that are about another component
InitViewportIdle == InitViewport({1024}, {FALSE}, {FALSE}, {FALSE})

\* DOMContentLoaded of the main script
MainInit ==
    /\ ~AppState.initialized
    /\ CommitView(mainInit(ViewWorld))

\* the browser goes online: navigator.onLine turns true and the online event is sent
OnlineEvent ==
    /\ AppState.initialized /\ ~environment.onLine
    /\ CommitView(handleOnline([ViewWorld EXCEPT !.env.onLine = TRUE,
                                                 !.obs.lastLine = "online"]))

\* the browser goes offline
OfflineEvent ==
    /\ AppState.initialized /\ environment.onLine
    /\ CommitView(handleOffline([ViewWorld EXCEPT !.env.onLine = FALSE,
                                                  !.obs.lastLine = "offline"]))

\* navigator.connection sends a change event, the connection being slow or not after it
ConnectionChange ==
    /\ AppState.initialized /\ environment.connection # "absent"
    /\ \E c \in {"fast", "slow"} :
          CommitView(handleConnectionChange([ViewWorld EXCEPT !.env.connection = c]))

\* the window is resized to a width w of widths: a resize event
WindowResizeTo(widths) ==
    \E w \in widths :
        CommitView(resizeListener([ViewWorld EXCEPT !.env.innerWidth = w]))

WindowResize == WindowResizeTo(ViewWidths)

\* the device is turned: an orientationchange event; two turns are more than 300 ms
\* apart, so that one AOS.refresh timer is pending at a time
OrientationChange ==
    /\ mainTimers.aos = {}
    /\ CommitView(handleOrientationChange(
                      [ViewWorld EXCEPT !.env.landscape = ~@]))

\* the user switches the reduced-motion preference of the system; the scripts
\* register no listener for the media query
MotionPreferenceChange ==
    CommitView([ViewWorld EXCEPT !.env.reducedMotion = ~@])

\* the debounce timer of the resize listener runs out
MainResizeTimerFire ==
    /\ mainTimers.resize = 0
    /\ CommitView(resizeTimerCallback(ViewWorld))

\* a timer of handleOrientationChange runs out: AOS.refresh()
AosTimerFire ==
    /\ 0 \in mainTimers.aos
    /\ CommitView([ViewWorld EXCEPT !.timers.aos = @ \ {0}])

\* TimeStep ms pass for the timers of the main script
MainTick ==
    /\ mainTimers.resize # 0
    /\ 0 \notin mainTimers.aos
    /\ mainTimers.resize # NoTimer \/ mainTimers.aos # {}
    /\ CommitView([ViewWorld EXCEPT
                      !.timers.resize = IF @ = NoTimer THEN @ ELSE @ - TimeStep,
                      !.timers.aos = {t - TimeStep : t \in @},
                      !.obs.sinceResize =
                          IF @ = NoTimer THEN @ ELSE Min(@ + TimeStep, ResizeDebounceMs)])

(* ---------------------------- specifications --------------------------- *)

vars == <<drawerVars, fleetVars, langVars, viewVars>>

\* the drawer specifications leave the fleet manager and the language switcher as
\* constructed
Init ==
    /\ InitDrawer({AllElements}, {FALSE}, InitCounts, {ScrollUnit}, {NoTimer})
    /\ InitFleet({FullFleetPage})
    /\ InitLang({<<>>})
    /\ InitViewportIdle

\* the drawer under every trigger but the click on the toggle, which NextCore has: the
\* drawer is opened and closed through the API, clicks inside it, swipes and resizes
Next ==
    \/ InitTimerFire({280})
    \/ OverlayClick
    \/ CloseBtnClick
    \/ LinkClick
    \/ EscapeKey
    \/ OutsideClick
    \/ NavTouchStart
    \/ NavTouchMove({<<400, 200>>})
    \/ NavTouchEnd({SwipeThreshold + 1}, {1000})
    \/ Resize({280})
    \/ ResizeTimerFire({280})
    \/ AnimTimerFire
    \/ ApiOpen
    \/ ApiClose
    \/ ApiToggle
    \/ Tick

Spec == Init /\ [][Next]_vars


\* the drawer under swipes: every release displacement and duration, no resize
NextSwipe ==
    \/ InitTimerFire({280})
    \/ NavTouchStart
    \/ NavTouchMove(MoveDeltas)
    \/ NavTouchEnd(EndDeltas, Durations)
    \/ OverlayTouchStart
    \/ OverlayTouchEnd(EndDeltas)
    \/ AnimTimerFire
    \/ ApiOpen
    \/ Tick

SpecSwipe == Init /\ [][NextSwipe]_vars

\* the drawer under scrolling: scroll events and the throttled lastScrollPosition update
NextScroll ==
    \/ InitTimerFire({280})
    \/ ToggleClick
    \/ CloseBtnClick
    \/ Scroll
    \/ ScrollTimerFire
    \/ AnimTimerFire
    \/ FocusTimerFire
    \/ ApiOpen
    \/ ApiClose
    \/ Tick

InitScroll ==
    /\ InitDrawer({AllElements}, {FALSE}, InitCounts, ScrollOffsets, {NoTimer})
    /\ InitFleet({FullFleetPage})
    /\ InitLang({<<>>})
    /\ InitViewportIdle

SpecScroll == InitScroll /\ [][NextScroll]_vars

\* the drawer without touch input: clicks, keys, resizes, timers and the API
NextCore ==
    \/ InitTimerFire({280})
    \/ ToggleClick
    \/ OverlayClick
    \/ CloseBtnClick
    \/ LinkClick
    \/ EscapeKey
    \/ OutsideClick
    \/ Resize({280})
    \/ ResizeTimerFire({280})
    \/ AnimTimerFire
    \/ FocusTimerFire
    \/ ApiOpen
    \/ ApiClose
    \/ ApiToggle
    \/ Tick

SpecCore == Init /\ [][NextCore]_vars

\* the drawer under the triggers that close it, the timers run by a fair event loop: a
\* timer that is due runs, and time passes
NextClose ==
    \/ InitTimerFire({280})
    \/ ToggleClick
    \/ OverlayClick
    \/ CloseBtnClick
    \/ EscapeKey
    \/ NavTouchStart
    \/ NavTouchEnd({0, SwipeThreshold, SwipeThreshold + 1}, {1000})
    \/ AnimTimerFire
    \/ FocusTimerFire
    \/ Tick

SpecCloseFair ==
    /\ Init
    /\ [][NextClose]_vars
    /\ WF_vars(InitTimerFire({280}))
    /\ WF_vars(AnimTimerFire)
    /\ WF_vars(FocusTimerFire)
    /\ WF_vars(Tick)

\* the drawer from a page load whose enhanceAccessibility call is still to come
InitAria ==
    /\ InitDrawer({AllElements}, {FALSE}, {1}, {ScrollUnit}, {EnhanceDelayMs})
    /\ InitFleet({FullFleetPage})
    /\ InitLang({<<>>})
    /\ InitViewportIdle

NextAria ==
    \/ InitTimerFire({280})
    \/ ToggleClick
    \/ CloseBtnClick
    \/ EscapeKey
    \/ AnimTimerFire
    \/ FocusTimerFire
    \/ EnhanceTimerFire
    \/ ApiOpen
    \/ ApiClose
    \/ Tick

SpecAria == InitAria /\ [][NextAria]_vars

\* the drawer on every page and in either layout, under clicks, keys and the
\* window.mobileMenu API
InitPages ==
    /\ InitDrawer(Pages, BOOLEAN, {1}, {ScrollUnit}, {NoTimer})
    /\ InitFleet({FullFleetPage})
    /\ InitLang({<<>>})
    /\ InitViewportIdle

NextPages ==
    \/ InitTimerFire({280})
    \/ ToggleClick
    \/ OverlayClick
    \/ CloseBtnClick
    \/ LinkClick
    \/ EscapeKey
    \/ TabKey
    \/ OutsideClick
    \/ AnimTimerFire
    \/ FocusTimerFire
    \/ ApiOpen
    \/ ApiClose
    \/ ApiToggle
    \/ Tick

SpecPages == InitPages /\ [][NextPages]_vars

\* the fleet manager alone: page load, the responses of the backend, filter clicks and
\* direct calls of fetchCars
NextFleet ==
    \/ FleetInit
    \/ CategoriesArrive
    \/ FilterClick
    \/ DirectFetchCars
    \/ CarsArrive
    \/ MockDelayElapse

InitFleetManager ==
    /\ InitDrawer({AllElements}, {FALSE}, {1}, {ScrollUnit}, {NoTimer})
    /\ InitFleet(FleetPages)
    /\ InitLang({<<>>})
    /\ InitViewportIdle

SpecFleet == InitFleetManager /\ [][NextFleet]_vars

\* the language switcher alone: page load, language clicks and the locale responses
NextLang ==
    \/ LangInit
    \/ LangClick
    \/ DictionaryArrive

InitLangSwitcher ==
    /\ InitDrawer({AllElements}, {FALSE}, {1}, {ScrollUnit}, {NoTimer})
    /\ InitFleet({FullFleetPage})
    /\ InitLang(SavedLangs)
    /\ InitViewportIdle

SpecLang == InitLangSwitcher /\ [][NextLang]_vars

(* ------------------------------- phases -------------------------------- *)

\* the drawer phase of the specification, read off the state of the code
Phase ==
    IF ~MobileMenu.isAnimating THEN (IF MobileMenu.isOpen THEN "Open" ELSE "Closed")
    ELSE IF timers.anim # <<>> /\ timers.anim[Len(timers.anim)].kind = "close" THEN "Closing"
    ELSE "Opening"

\* the step starts an Opening or Closing transition: it arms an animation-completion timer
StartsTransition == Len(timers.anim') > Len(timers.anim)

\* the step runs an animation-completion callback
AnimationEnds == Len(timers.anim') < Len(timers.anim)

\* what C2 lists: isOpen, isAnimating, the active classes, the ARIA attributes, the body
\* scroll-lock styles and the panel transform
Face ==
    <<MobileMenu.isOpen, MobileMenu.isAnimating, dom.toggleActive, dom.overlayActive,
      dom.navActive, dom.bodyMenuOpen, dom.ariaExpanded, dom.ariaHidden, dom.bodyPosition,
      dom.bodyTop, dom.bodyOverflow, dom.navTransform>>

BodyFixed == dom.bodyPosition = "fixed" /\ dom.bodyOverflow = "hidden"

(* -------------------------------- claims ------------------------------- *)

\* C1: a transition starts only from a non-animating state, so at most one
\* animation-completion timer is pending at any time, and one is pending exactly while
\* MobileMenu.isAnimating is true.
C1_OneTransitionAtATime ==
    /\ Len(timers.anim) <= 1
    /\ MobileMenu.isAnimating <=> Len(timers.anim) = 1

\* C1 witness: a Closing transition is in flight, some of its 350ms already elapsed, with
\* the listeners registered twice (every trigger is enabled in this state).
C1_Witness ==
    /\ Phase = "Closing"
    /\ timers.anim[1].rem < AnimationMs
    /\ listeners.menu = 2

\* C2 as stated: a trigger received while the drawer is animating is ignored and causes no
\* later transition. Here: the debounced callback armed by a resize event that arrived
\* during an animation starts no transition when it runs.
C2_Original ==
    [][(timers.resize = 0 /\ timers.resize' = NoTimer /\ obs.resizeWhileAnimating)
          => ~StartsTransition]_vars

\* C2 amended: a trigger received while the drawer is animating changes none of isOpen,
\* isAnimating, the active classes, the ARIA attributes, the body scroll-lock styles and the
\* panel transform (only the animation-completion callback changes them then); and the only
\* timer callback that starts a transition is the debounced handleMenuResize, which a resize
\* event arms: it closes the drawer when it runs after the animation, at desktop width.
C2_IgnoredWhileAnimating ==
    [][/\ MobileMenu.isAnimating => (Face' = Face \/ AnimationEnds)
       /\ ~(StartsTransition /\ timers.init.count' < timers.init.count)
       /\ ~(StartsTransition /\ AnimationEnds)
       /\ (StartsTransition /\ timers.resize = 0 /\ timers.resize' = NoTimer)
             => (Phase = "Open" /\ Phase' = "Closing" /\ win.innerWidth > MobileMaxWidth)]_vars

\* C2 witness: a resize to desktop width arrived during Opening and was ignored: the drawer
\* is still Opening, with a swipe in progress on the panel.
C2_Witness ==
    /\ Phase = "Opening"
    /\ listeners.menu > 0
    /\ dom.navTransform # <<>>
    /\ obs.resizeWhileAnimating
    /\ win.innerWidth > MobileMaxWidth
    /\ touch = Nav

\* C6 as stated: the body is fixed exactly in the phases Opening, Open and Closing.
C6_Original == BodyFixed <=> Phase \in {"Opening", "Open", "Closing"}

\* C6 amended: the body is fixed exactly in the phases Opening and Open; closeMobileMenu
\* releases the lock on entering Closing, and the body stays unlocked in Closed.
C6_BodyFixedWhileOpen ==
    /\ BodyFixed <=> Phase \in {"Opening", "Open"}
    /\ ~BodyFixed => dom.bodyPosition = "" /\ dom.bodyOverflow = "" /\ dom.bodyTop = <<>>

\* C6 witness: the drawer is Closing and the body is already unlocked.
C6_Witness == Phase = "Closing" /\ ~BodyFixed /\ dom.bodyPosition = ""


\* the step releases a swipe on the panel of the open, non-animating drawer, the listeners
\* registered and the touchstart of the swipe recorded
ReleaseOnOpen ==
    /\ touch = Nav /\ touch' = "none"
    /\ Phase = "Open"
    /\ listeners.menu > 0
    /\ MobileMenu.touchStartTime = "set"
    /\ obs'.release # <<>>

ReleasedDx == obs'.release[1]

ReleasedMs == obs'.release[2]

\* dx / dt > 0.3 in IEEE arithmetic: dx / 0 is +Infinity for dx > 0 and never above 0.3 otherwise
RatioAboveFlick(dx, ms) == IF ms = 0 THEN dx > 0 ELSE FlickDen * dx > FlickNum * ms

\* C3 as stated: a release at threshold - 1 leaves the drawer Open and a release at
\* threshold + 1 starts Closing, whatever the duration of the touch.
C3_Original ==
    [][ReleaseOnOpen =>
          /\ ReleasedDx = SwipeThreshold - 1 => Phase' = "Open"
          /\ ReleasedDx = SwipeThreshold + 1 => Phase' = "Closing"]_vars

\* C3 amended: a release at threshold - 1 leaves the drawer Open when dx / dt <= 0.3 and
\* starts Closing when the release is faster; a release at threshold + 1 starts Closing for
\* every duration.
C3_ThresholdRelease ==
    [][ReleaseOnOpen =>
          /\ ReleasedDx = SwipeThreshold - 1 =>
                IF RatioAboveFlick(SwipeThreshold - 1, ReleasedMs)
                THEN Phase' = "Closing" ELSE Phase' = "Open"
          /\ ReleasedDx = SwipeThreshold + 1 => Phase' = "Closing"]_vars

\* C3 witness: a swipe of threshold - 1 pixels was released after 164ms and the drawer is
\* still Open.
C3_Witness ==
    /\ obs.release = <<SwipeThreshold - 1, 164>>
    /\ Phase = "Open"
    /\ listeners.menu > 0

\* C4: on touchend on the panel of the open, non-animating drawer, closeMobileMenu starts
\* Closing if and only if dx > swipeThreshold or dx / dt > 0.3; otherwise the drawer stays
\* Open; in both cases the inline transform of the panel is empty afterwards.
C4_ReleaseDecision ==
    [][ReleaseOnOpen =>
          /\ IF ReleasedDx > SwipeThreshold \/ RatioAboveFlick(ReleasedDx, ReleasedMs)
             THEN Phase' = "Closing" ELSE Phase' = "Open"
          /\ dom'.navTransform = <<>>]_vars

\* C4 witness: a swipe shorter than the threshold but faster than 0.3 px/ms was released and
\* the drawer is Closing, the transform empty.
C4_Witness ==
    /\ obs.release = <<SwipeThreshold - 1, 100>>
    /\ Phase = "Closing"
    /\ dom.navTransform = <<>>
    /\ dom.overlayOpacity # <<>>

\* C5: once closeMobileMenu has run after an open, the offset it passed to window.scrollTo
\* is the scroll offset the window had when openMobileMenu opened the drawer, whatever
\* scroll events and throttled lastScrollPosition updates happened in between.
C5_ScrollRestored ==
    /\ Phase = "Closing" => obs.scrolledTo # <<>>
    /\ obs.scrolledTo # <<>> => obs.scrolledTo = <<Num(obs.openY)>>

\* C5 witness: the drawer opened at the largest offset, lastScrollPosition was overwritten
\* by the throttled scroll handler while it was open, and closeMobileMenu has just run.
C5_Witness ==
    /\ Phase = "Closing"
    /\ timers.anim[1].rem = AnimationMs
    /\ obs.openY = MaxScroll
    /\ MobileMenu.lastScrollPosition # obs.openY
    /\ obs.scrolledTo = <<Num(MaxScroll)>>

(* ------------------------------ fleet claims --------------------------- *)

\* C7 (as stated): after a fetchCars(5) call has completed successfully, every record
\* of this.cars and every rendered card has category_id 5, whatever categories the
\* records of the response had.
C7_Original ==
    (fleetObs.done # <<>> /\ fleetObs.done[1].categoryId = Num(5) /\ fleetObs.done[1].ok)
        => /\ \A i \in DOMAIN fleetManager.cars : fleetManager.cars[i].category_id = 5
           /\ \A i \in DOMAIN fleetDom.carsGrid.cards :
                 fleetDom.carsGrid.cards[i].category_id = 5

\* the slugs of the fixed fallback list, in order: Эконом (1), Комфорт (2), SUV (5)
FallbackList ==
    <<[id |-> 1, slug |-> "economy"], [id |-> 2, slug |-> "comfort"],
      [id |-> 5, slug |-> "suv"]>>

\* C8: when the categories request has failed or window.carAPI is absent,
\* this.categories is the fixed list of Эконом (1), Комфорт (2), SUV (5) in that order,
\* and init() has gone on: the filter buttons (where the page has the container) are
\* 'all' and the three categories, and the vehicles load has been issued.
C8_FallbackCategories ==
    fleetObs.categoriesSource = "fallback"
        => /\ fleetManager.categories = [isArray |-> TRUE, items |-> FallbackList]
           /\ fleetManager.pc \in {"loadAllCars", "ready"}
           /\ fleetObs.issued >= 1
           /\ fleetDom.page.filtersContainer
                 => fleetDom.buttons = <<All, Num(1), Num(2), Num(5)>>

\* the categories request of a page with window.carAPI has failed, and init() has
\* finished with the fallback buttons and a rendered grid
C8_Witness ==
    /\ fleetDom.page.carAPI
    /\ fleetDom.page.filtersContainer
    /\ fleetObs.categoriesSource = "fallback"
    /\ fleetManager.pc = "ready"
    /\ Len(fleetDom.buttons) = 4
    /\ fleetDom.carsGrid.kind = "cards"

\* C9 (as stated): once no fetchCars call is in flight, this.cars and the grid are those
\* the latest-issued completed call left: the response of an earlier call never
\* overwrites the render of a later one.
C9_Original ==
    (requests.cars = <<>> /\ fleetObs.latest.seq > 0)
        => /\ fleetManager.cars = fleetObs.latest.cars
           /\ fleetDom.carsGrid = fleetObs.latest.grid

(* ------------------------------ i18n claims ---------------------------- *)

\* what a key resolves to in the dictionary applyTranslations reads
Resolved(dictionary, key) ==
    IF Truthy(dictionary) THEN get(dictionary, key) ELSE Undefined

\* C10: in every step, a translated text or placeholder changes only when the step
\* applies a loaded dictionary in which the element's key resolves to a string, and then
\* it becomes that string; an element whose key is missing or resolves to no string
\* keeps exactly the text it had.
C10_MissingKeyUntouched ==
    [][/\ \A el \in DOMAIN DataI18n :
             LET val == Resolved(i18n'.dictionary, DataI18n[el])
             IN  i18nDom'.text[el] =
                    IF langObs'.applied # <<>> /\ IsString(val) THEN val.chars
                    ELSE i18nDom.text[el]
       /\ \A el \in DOMAIN DataI18nPlaceholder :
             LET val == Resolved(i18n'.dictionary, DataI18nPlaceholder[el])
             IN  i18nDom'.placeholder[el] =
                    IF langObs'.applied # <<>> /\ IsString(val) THEN val.chars
                    ELSE i18nDom.placeholder[el]]_vars

\* the English dictionary without nav.home and title has been applied over the Russian
\* texts: the nav link and the title keep the Russian text, the placeholder is English
C10_Witness ==
    /\ langObs.applied = <<"en">>
    /\ i18n.dictionary = EnPartial
    /\ i18nDom.text.navHome = <<"G", "l">>
    /\ i18nDom.text.title = <<"A", "r">>
    /\ i18nDom.placeholder.nameInput = <<"N", "a">>

\* C11: setLanguage cancels nothing (a call only adds a load in flight, a completion
\* removes only its own), every successful completion overwrites the dictionary and
\* re-renders, and so, once no load is in flight, the dictionary and the translated
\* texts are those of the call whose loadDictionary resolved last, whether or not it
\* was the call issued last.
C11_LastCompletionWins ==
    [][/\ langObs'.issued > langObs.issued =>
             (Len(loads') = Len(loads) + 1 /\ SubSeq(loads', 1, Len(loads)) = loads)
       /\ langObs'.issued = langObs.issued => Len(loads') >= Len(loads) - 1
       /\ langObs'.applied # <<>> =>
             /\ i18n'.dictionary = langObs'.last.json
             /\ Truthy(i18n'.dictionary) => i18nDom'.htmlLang = i18n'.currentLang
       /\ (loads' = <<>> /\ langObs'.last.seq > 0) =>
             /\ i18n'.dictionary = langObs'.last.json
             /\ \A el \in DOMAIN DataI18n :
                   LET val == Resolved(langObs'.last.json, DataI18n[el])
                   IN  IsString(val) => i18nDom'.text[el] = val.chars
             /\ \A el \in DOMAIN DataI18nPlaceholder :
                   LET val == Resolved(langObs'.last.json, DataI18nPlaceholder[el])
                   IN  IsString(val) => i18nDom'.placeholder[el] = val.chars]_vars

\* C11 witness: English was requested after Russian, the English dictionary arrived
\* first and the Russian one last: nothing is in flight, the language selected and
\* stored is English and the page shows the Russian dictionary
C11_Witness ==
    /\ loads = <<>>
    /\ langObs.issued >= 2
    /\ langObs.last.seq < langObs.issued
    /\ i18n.currentLang = "en"
    /\ i18n.storage = <<"en">>
    /\ i18n.dictionary = RuFull
    /\ i18nDom.text.navHome = <<"G", "l">>
    /\ i18nDom.placeholder.nameInput = <<"I", "m">>
    /\ i18nDom.htmlLang = "en"

(* ------------------------- pages with missing elements ------------------ *)

\* the page lacks #mobileMenuToggle or #mobileNav
Disabled == Toggle \notin page \/ Nav \notin page

\* C12 as stated: on a page without #mobileMenuToggle or #mobileNav no drawer listener is
\* registered, and no trigger, window.mobileMenu.toggle(), open() and close() included,
\* changes isOpen, isAnimating, the body class or the scroll-lock styles, or throws
C12_Original ==
    Disabled =>
        /\ listeners.menu = 0 /\ listeners.outside = 0
        /\ ~MobileMenu.isOpen
        /\ ~MobileMenu.isAnimating
        /\ ~dom.bodyMenuOpen
        /\ dom.bodyPosition = "" /\ dom.bodyTop = <<>> /\ dom.bodyOverflow = ""
        /\ ~obs.threw

\* C13 as stated: whatever drawer elements the page lacks, no drawer event handler ends
\* in an uncaught exception, Tab and Shift+Tab presses on the open drawer included
C13_Original == ~obs.threw

(* ------------------------------- focus --------------------------------- *)

\* the focusable elements of the drawer
DrawerItems == {CloseBtn, FirstLink, LastLink}

\* C14 as stated: on a page with every drawer element, while the drawer is Open and
\* focus is inside the drawer, no Tab or Shift+Tab press (and no other step) moves
\* focus out of the drawer
C14_Original ==
    [][(/\ page = AllElements
        /\ MobileMenu.isOpen /\ ~MobileMenu.isAnimating
        /\ dom.activeElement \in DrawerItems)
       => dom'.activeElement \in DrawerItems]_vars

(* ------------------------------- resize -------------------------------- *)

\* no timer of the drawer is pending
Quiet == ~SomePending

\* C15 as stated: once the width has gone above 768 while the drawer was open, the
\* resize handlers have run and every timer has fired, isOpen is false and the body is
\* unlocked, also when the resize arrived during the Opening animation
C15_Original ==
    (obs.crossed /\ Quiet) => (~MobileMenu.isOpen /\ dom.bodyPosition = "")

(* ------------------------------ touchmove ------------------------------ *)

\* C16 as stated: a touchmove on the panel has its default action prevented only when
\* the drag is rightward and more horizontal than vertical; no listener of the panel
\* calls preventDefault for a vertical or leftward drag
C16_Original ==
    (obs.move # <<>> /\ obs.move[1].prevented) => obs.move[1].rightward

(* -------------------------------- ARIA --------------------------------- *)

\* C17 as stated: whenever no animation is in flight, aria-expanded is "true" and
\* aria-hidden is "false" if the drawer is Open, and they are "false" and "true" if it
\* is Closed, however opens and closes are ordered with enhanceAccessibility
C17_Original ==
    ~MobileMenu.isAnimating =>
        /\ dom.ariaExpanded = BoolToString(MobileMenu.isOpen)
        /\ dom.ariaHidden = BoolToString(~MobileMenu.isOpen)

(* --------------------------- closing and opening ------------------------ *)

\* the step releases, on the panel, a rightward swipe longer than the threshold
SwipeRightPastThreshold ==
    /\ touch = Nav /\ touch' = "none"
    /\ obs'.release # <<>> /\ obs'.release[1] > SwipeThreshold

\* C18: from Open, a toggle click, an overlay click, a close-button click, an Escape key
\* press and a rightward swipe past the threshold each start Closing; and, the timers
\* being run fairly, every Closing reaches Closed with the body unlocked and every Opening
\* reaches Open
C18_TransitionsComplete ==
    /\ [][(/\ Phase = "Open"
           /\ \/ ToggleClick
              \/ OverlayClick
              \/ CloseBtnClick
              \/ EscapeKey
              \/ SwipeRightPastThreshold)
          => Phase' = "Closing"]_vars
    /\ (Phase = "Closing") ~> (Phase = "Closed" /\ dom.bodyPosition = "" /\ ~BodyFixed)
    /\ (Phase = "Opening") ~> (Phase = "Open")

\* C18 witness: a Closing started from Open is in its last 50ms, the body unlocked
C18_Witness ==
    /\ Phase = "Closing"
    /\ timers.anim[1].rem = TimeStep
    /\ dom.bodyPosition = ""
    /\ listeners.menu > 0

\* where focus belongs once a transition is over: the close button of the open drawer,
\* the toggle of the closed one
FocusTarget(isOpen) == IF isOpen THEN CloseBtn ELSE Toggle

\* C19: a timer callback, the 350ms completion or a 100ms focus timer in any order, that
\* leaves the drawer at rest leaves focus on the close button if the drawer is open and
\* on the toggle if it is closed; and while the drawer rests no step moves focus
C19_FocusAfterTransition ==
    [][/\ ((AnimTimerFire \/ FocusTimerFire) /\ ~MobileMenu'.isAnimating)
             => dom'.activeElement = FocusTarget(MobileMenu'.isOpen)
       /\ (~MobileMenu.isAnimating /\ ~MobileMenu'.isAnimating)
             => dom'.activeElement = dom.activeElement]_vars

\* C19 witness: the drawer has opened, focus is on the close button and the focus timer of
\* a toggle click made during the animation is still pending
C19_Witness ==
    /\ Phase = "Open"
    /\ dom.activeElement = CloseBtn
    /\ timers.focus # {}
    /\ timers.anim = <<>>

(* ----------------------------- outside click --------------------------- *)

\* C20 as stated: a click outside the panel and the toggle closes the open drawer exactly
\* when the width is above 768 at the time of the click, whatever resizes came before: at
\* a width of at most 768 it never does, and above 768 the listener is there to do it
C20_Original ==
    /\ [][(OutsideClick /\ Phase = "Open")
             => (Phase' = "Closing" <=> win.innerWidth > MobileMaxWidth)]_vars
    /\ []((Phase = "Open" /\ win.innerWidth > MobileMaxWidth) => listeners.outside > 0)

(* ----------------------- fleet manager: failures ----------------------- *)

\* C21 as stated: a fetchCars call whose request failed (a rejected fetch, a status
\* that is not 2xx) leaves this.cars empty
C21_Original ==
    [][(fleetObs'.done # <<>> /\ ~fleetObs'.done[1].ok) => fleetManager'.cars = <<>>]_vars

\* the fleet manager with the fairness its own scheduling gives: the DOMContentLoaded
\* handler runs and the 400 ms timer of the local list runs out; getJson awaits fetch
\* with no timeout and no AbortController, so nothing makes a response arrive
SpecFleetFair ==
    /\ InitFleetManager
    /\ [][NextFleet]_vars
    /\ WF_vars(FleetInit)
    /\ WF_vars(MockDelayElapse)

\* C22 as stated: every vehicle request leaves the in-flight state, the grid then
\* shows the cards, the "none found" message or the error message and isLoading is
\* false again, even when the backend never responds
C22_Original ==
    fleetManager.isLoading
        ~> (~fleetManager.isLoading
            /\ fleetDom.carsGrid.kind \in {"cards", "no-cars", "error"})

\* a 2xx categories response whose payload is not a list has been stored by
\* loadCategories
NonListCategories ==
    fleetObs.categoriesSource = "backend" /\ ~fleetManager.categories.isArray

\* C23 as stated, for the categories endpoint: after a non-list categories payload
\* init goes on to load and render the vehicles, with no filter of a category and
\* without showing the error state
C23_Original ==
    NonListCategories =>
        /\ fleetManager.pc \in {"loadAllCars", "ready"}
        /\ fleetDom.carsGrid # Grid("error", <<>>, "fleet load error")

\* the vehicles half of C23: a 2xx vehicles response whose payload is not a list
\* leaves this.cars = [] and the "none found" message
C23_VehiclesCoerced ==
    [][\A i \in DOMAIN requests.cars :
          (/\ fleetDom.page.carAPI
           /\ fleetManager' = fetchCarsResumed(FleetWorld, i, Ok(NotArray)).fm
           /\ fleetDom' = fetchCarsResumed(FleetWorld, i, Ok(NotArray)).dom
           /\ requests' = fetchCarsResumed(FleetWorld, i, Ok(NotArray)).req)
          => (fleetManager'.cars = <<>> /\ fleetDom'.carsGrid = createNoCarsMessage)]_vars

(* ----------------------- fleet manager: render states -------------------- *)
\* what renderCars writes for this.cars and this.categories
RenderedCards ==
    [i \in DOMAIN fleetManager.cars |->
        createCarCard(fleetManager.categories, fleetManager.cars[i])]

\* C24: once the manager has written #carsGrid, the grid is the skeleton, the cards
\* of this.cars, the "none found" message or an error message and nothing else; the
\* skeleton is there only while isLoading is true and a vehicle request is in
\* flight; the step that completes a request leaves cards, "none found" or the
\* error, never the skeleton or a rest of the render before
C24_RenderStates ==
    /\ fleetDom.carsGrid.kind \in {"markup", "skeleton", "cards", "no-cars", "error"}
    /\ fleetDom.carsGrid.kind = "markup"
          => fleetManager.pc \in {"start", "noGrid", "loadCategories"}
    /\ fleetDom.carsGrid.kind = "skeleton"
          => (fleetDom.carsGrid = Skeleton /\ fleetManager.isLoading
              /\ requests.cars # <<>>)
    /\ fleetDom.carsGrid.kind = "cards"
          => (fleetDom.carsGrid = Grid("cards", RenderedCards, "")
              /\ fleetManager.cars # <<>>)
    /\ fleetDom.carsGrid.kind = "no-cars"
          => (fleetDom.carsGrid = createNoCarsMessage /\ fleetManager.cars = <<>>)
    /\ fleetDom.carsGrid.kind = "error"
          => (fleetDom.carsGrid.cards = <<>>
              /\ fleetDom.carsGrid.msg \in {"fleet load error", "could not load cars"})
    /\ fleetObs.done # <<>>
          => fleetDom.carsGrid.kind \in {"cards", "no-cars", "error"}

\* a request that is not the first completes with two cards over the grid of the
\* render before
C24_Witness ==
    /\ fleetObs.done # <<>>
    /\ fleetObs.done[1].seq > 1
    /\ fleetDom.carsGrid.kind = "cards"
    /\ Len(fleetDom.carsGrid.cards) = 2
    /\ ~fleetManager.isLoading

(* ----------------------- fleet manager: the busy flag -------------------- *)
\* the fleet manager as the page drives it: vehicle requests are started by init and
\* by filter clicks only
NextFleetClicks ==
    \/ FleetInit
    \/ CategoriesArrive
    \/ FilterClick
    \/ CarsArrive
    \/ MockDelayElapse

SpecFleetClicks == InitFleetManager /\ [][NextFleetClicks]_vars

\* C25: while isLoading is true a click on any filter button changes nothing
\* (currentCategoryId, the active button, the grid, the calls in flight), and with
\* requests started by init and by filter clicks at most one vehicle request is in
\* flight, the busy flag being true exactly then
C25_BusyFlag ==
    /\ fleetManager.isLoading
          => \A i \in DOMAIN fleetDom.buttons :
                onFilterClick(FleetWorld, fleetDom.buttons[i]) = FleetWorld
    /\ Len(requests.cars) <= 1
    /\ fleetManager.isLoading <=> requests.cars # <<>>

\* the request of a filter click is in flight and the filter buttons can be clicked
C25_Witness ==
    /\ fleetManager.isLoading
    /\ Len(fleetDom.buttons) > 1
    /\ Len(requests.cars) = 1
    /\ requests.cars[1].caller = "click"
    /\ fleetObs.issued < MaxRequests

(* ----------------------- viewport detector: the runs ------------------- *)
\* the viewport detector alone: page load, resize and orientationchange events, a
\* change of the reduced-motion preference, the timers of the main script
NextViewport ==
    \/ MainInit
    \/ WindowResize
    \/ OrientationChange
    \/ MotionPreferenceChange
    \/ MainResizeTimerFire
    \/ AosTimerFire
    \/ MainTick

InitViewportDetector ==
    /\ InitDrawer({AllElements}, {FALSE}, {1}, {ScrollUnit}, {NoTimer})
    /\ InitFleet({FullFleetPage})
    /\ InitLang({<<>>})
    /\ InitViewport(ViewWidths, BOOLEAN, BOOLEAN, BOOLEAN)

SpecViewport == InitViewportDetector /\ [][NextViewport]_vars

\* the viewport fields of AppState
Published(app) ==
    [isMobile |-> app.isMobile, isTablet |-> app.isTablet, isDesktop |-> app.isDesktop,
     currentBreakpoint |-> app.currentBreakpoint, isTouchDevice |-> app.isTouchDevice,
     prefersReducedMotion |-> app.prefersReducedMotion]

\* AppState publishes what detectDeviceCapabilities computes from the environment
InSync == Published(AppState) = Published(detectDeviceCapabilities(ViewWorld).app)

\* C26 as stated: when handleResize has run for a resize event, and when the
\* orientationchange handler has run, the viewport fields of AppState are those
\* detectDeviceCapabilities would compute from the environment of that moment
C26_Original ==
    [][(MainResizeTimerFire \/ (AppState.initialized /\ OrientationChange)) => InSync']_vars

\* the fields handleResize assigns follow the width whenever handleResize has run
C26_WidthFieldsFollow ==
    [][MainResizeTimerFire =>
          /\ AppState'.currentBreakpoint = breakpointOf(environment'.innerWidth)
          /\ AppState'.isMobile = (environment'.innerWidth <= 768)
          /\ AppState'.isTablet = (environment'.innerWidth > 768
                                   /\ environment'.innerWidth <= 1024)
          /\ AppState'.isDesktop = (environment'.innerWidth > 1024)]_vars

(* ----------------------- viewport detector: debounce ------------------- *)
\* C30: handleResize runs only when 250 ms have passed since the last resize event,
\* it is then the first run since that event and it publishes the breakpoint of
\* the width that event left; between the event and that run the debounce timer is
\* pending with what remains of the 250 ms, and afterwards none is
C30_Debounced ==
    /\ [](/\ viewObs.runs <= 1
          /\ viewObs.sinceResize # NoTimer
                => /\ viewObs.runs = 0 <=> mainTimers.resize # NoTimer
                   /\ viewObs.runs = 0
                         => mainTimers.resize = ResizeDebounceMs - viewObs.sinceResize)
    /\ [][MainResizeTimerFire =>
             /\ viewObs.sinceResize = ResizeDebounceMs
             /\ viewObs'.runs = 1
             /\ AppState'.currentBreakpoint = breakpointOf(environment.innerWidth)
             /\ environment'.innerWidth = environment.innerWidth]_vars

\* handleResize has run once after a burst of resize events less than 250 ms apart,
\* and moved the breakpoint to that of the last width
C30_Witness ==
    /\ viewObs.burst = 2
    /\ viewObs.runs = 1
    /\ mainTimers.resize = NoTimer
    /\ AppState.currentBreakpoint = "2xl"
    /\ bodyClass.breakpoints = {"2xl"}

(* ----------------------- language switcher: persistence ---------------- *)
\* the language switcher over several loads of the page
NextLangReload ==
    \/ LangInit
    \/ LangClick
    \/ DictionaryArrive
    \/ LangReload

SpecLangReload == InitLangSwitcher /\ [][NextLangReload]_vars

\* the language of the setLanguage call issued last
Requested(ls) == ls[Len(ls)].lang

\* C27: a step that calls setLanguage(code) leaves code under the localStorage key
\* "lang"; no other step (a dictionary that arrives or fails, in any order, a reload
\* of the page) changes the stored value; and the setLanguage call of a page load
\* asks for the stored code, for "ru" when nothing is stored
C27_StoredLanguage ==
    [][/\ langObs'.issued > langObs.issued
             => (loads' # <<>> /\ i18n'.storage = <<Requested(loads')>>
                 /\ i18n'.currentLang = Requested(loads'))
       /\ langObs'.issued = langObs.issued => i18n'.storage = i18n.storage
       /\ (~i18n.ready /\ i18n'.ready)
             => (loads' # <<>> /\ Requested(loads') =
                    IF i18n.storage = <<>> THEN DEFAULT_LANG ELSE i18n.storage[1])]_vars

\* English was chosen on a page whose earlier load stored Russian, the page was
\* loaded again and the load asked for English, which its dictionary then applied
C27_Witness ==
    /\ langObs.reloaded
    /\ i18n.ready
    /\ i18n.storage = <<"en">>
    /\ i18n.currentLang = "en"
    /\ langObs.applied = <<"en">>
    /\ langObs.issued = 3
    /\ i18nDom.htmlLang = "en"

(* ------------------------------ page teardown --------------------------- *)
\* beforeunload: the page is about to be left; the handlers of both scripts run
BeforeUnload == Commit(beforeUnload(World))

\* the drawer with the teardown of the page: the triggers of NextCore but the click on
\* the toggle, and beforeunload, after which the timers go on and the events that
\* reach the remaining listeners can still arrive (a navigation that is cancelled or
\* delayed leaves the page in place)
NextUnload ==
    \/ InitTimerFire({280})
    \/ OverlayClick
    \/ CloseBtnClick
    \/ LinkClick
    \/ EscapeKey
    \/ Resize({280})
    \/ ResizeTimerFire({280})
    \/ AnimTimerFire
    \/ ApiOpen
    \/ ApiClose
    \/ BeforeUnload
    \/ Tick

SpecUnload == Init /\ [][NextUnload]_vars

\* C28 as stated: when the beforeunload handlers have run, no animation-completion
\* timer, no resize debounce timer of the drawer or of the viewport detector and no
\* scroll throttle timer is pending
C28_Original ==
    [][BeforeUnload =>
          /\ timers'.anim = <<>>
          /\ timers'.resize = NoTimer
          /\ timers'.scroll = NoTimer
          /\ mainTimers'.resize = NoTimer]_vars

\* the callbacks of closeMobileMenu that run after beforeunload hold a toggle that
\* is no longer in the document
C28_RunsAgainstReplaced ==
    \E i \in 1..Len(timers.anim) : timers.anim[i].detached /\ timers.anim[i].rem = 0

(* ----------------------------- swipe drags ------------------------------ *)
\* the drawer under drags and resizes; mobileNav.offsetWidth is 0 or 280 when
\* handleMenuResize reads it
NextDrag ==
    \/ InitTimerFire({280})
    \/ NavTouchStart
    \/ NavTouchMove(MoveDeltas)
    \/ NavTouchEnd({SwipeThreshold + 1}, {1000})
    \/ Resize({0, 280})
    \/ ResizeTimerFire({0, 280})
    \/ AnimTimerFire
    \/ ApiOpen
    \/ Tick

\* a page load that schedules initMobileMenu once
InitDrag ==
    /\ InitDrawer({AllElements}, {FALSE}, {1}, {ScrollUnit}, {NoTimer})
    /\ InitFleet({FullFleetPage})
    /\ InitLang({<<>>})
    /\ InitViewportIdle

SpecDrag == InitDrag /\ [][NextDrag]_vars

\* a fraction <<numerator, denominator>> between 0 and 1
InUnitRange(f) == f[2] > 0 /\ 0 <= f[1] /\ f[1] <= f[2]

\* C29: a touchmove on the panel leaves isOpen, isAnimating and the animation timers
\* as they were, and the fraction it writes to the transform of the panel and to the
\* opacity of the overlay lies between 0 and 1, also when menuWidth is 0
C29_DragKeepsPhase ==
    [][NavTouchMove(MoveDeltas) =>
          /\ MobileMenu'.isOpen = MobileMenu.isOpen
          /\ MobileMenu'.isAnimating = MobileMenu.isAnimating
          /\ timers' = timers
          /\ dom'.navTransform # dom.navTransform => InUnitRange(dom'.navTransform)
          /\ dom'.overlayOpacity # dom.overlayOpacity => InUnitRange(dom'.overlayOpacity)
          /\ (MobileMenu.isOpen /\ ~MobileMenu.isAnimating /\ listeners.menu > 0
              /\ obs'.move # <<>> /\ obs'.move[1].rightward)
                => (dom'.navTransform # <<>> /\ InUnitRange(dom'.navTransform))]_vars

\* a rightward drag on the open drawer after handleMenuResize stored a menuWidth of 0:
\* the panel is translated by the whole of its width
C29_Witness ==
    /\ MobileMenu.isOpen /\ ~MobileMenu.isAnimating
    /\ MobileMenu.menuWidth = 0
    /\ obs.move # <<>> /\ obs.move[1].rightward
    /\ dom.navTransform = <<1, 1>>

(* ----------------------- viewport detector: classes -------------------- *)
\* the widths on both sides of every limit of the device types and the breakpoints
EdgeWidths == {374, 375, 567, 568, 767, 768, 769, 1023, 1024, 1025, 1439, 1440}

\* the viewport detector under resizes to the widths at the limits
NextBreakpoints ==
    \/ MainInit
    \/ WindowResizeTo(EdgeWidths)
    \/ MainResizeTimerFire
    \/ MainTick

InitBreakpoints ==
    /\ InitDrawer({AllElements}, {FALSE}, {1}, {ScrollUnit}, {NoTimer})
    /\ InitFleet({FullFleetPage})
    /\ InitLang({<<>>})
    /\ InitViewport(EdgeWidths, {FALSE}, {FALSE}, {FALSE})

SpecBreakpoints == InitBreakpoints /\ [][NextBreakpoints]_vars

\* the bucket of a width, as the claim lists them
Bucket(w) ==
    CASE w < 375 -> "xs"
      [] w >= 375 /\ w < 568 -> "sm"
      [] w >= 568 /\ w < 768 -> "md"
      [] w >= 768 /\ w < 1024 -> "lg"
      [] w >= 1024 /\ w < 1440 -> "xl"
      [] w >= 1440 -> "2xl"

\* C31: once the page is initialised and no resize is waiting for its debounce,
\* exactly one of isMobile, isTablet, isDesktop is true, each by its range of the
\* width, body carries one breakpoint class, it names AppState.currentBreakpoint and
\* that is the bucket of the width
C31_OneDeviceOneBreakpoint ==
    (AppState.initialized /\ mainTimers.resize = NoTimer) =>
        /\ Cardinality({f \in {"isMobile", "isTablet", "isDesktop"} : AppState[f]}) = 1
        /\ AppState.isMobile <=> environment.innerWidth <= 768
        /\ AppState.isTablet <=> (environment.innerWidth > 768
                                  /\ environment.innerWidth <= 1024)
        /\ AppState.isDesktop <=> environment.innerWidth > 1024
        /\ bodyClass.breakpoints = {AppState.currentBreakpoint}
        /\ AppState.currentBreakpoint = Bucket(environment.innerWidth)

\* handleResize has run for a burst of resizes that ended at 1024 px, on a page loaded
\* at another breakpoint: a tablet at breakpoint xl
C31_Witness ==
    /\ AppState.initialized /\ mainTimers.resize = NoTimer
    /\ viewObs.runs = 1 /\ viewObs.burst = 2
    /\ environment.innerWidth = 1024
    /\ AppState.isTablet /\ AppState.currentBreakpoint = "xl"
    /\ bodyClass.breakpoints = {"xl"}

(* --------------------------- drawer: the flags -------------------------- *)
\* C32: MobileMenu.isAnimating implies MobileMenu.isOpen in every state; isOpen
\* becomes true only in a step that starts the opening (isAnimating true after it)
\* and becomes false only in the step of the timer that ends the closing
C32_AnimatingImpliesOpen ==
    /\ [](MobileMenu.isAnimating => MobileMenu.isOpen)
    /\ [][/\ (~MobileMenu.isOpen /\ MobileMenu'.isOpen) => MobileMenu'.isAnimating
          /\ (MobileMenu.isOpen /\ ~MobileMenu'.isOpen)
                => (MobileMenu.isAnimating /\ ~MobileMenu'.isAnimating
                    /\ Len(timers'.anim) < Len(timers.anim))]_vars

\* the drawer is closing: the panel has lost its active class, the timer of
\* closeMobileMenu is pending and window.mobileMenu.isOpen() still answers true
C32_Witness ==
    /\ Phase = "Closing"
    /\ MobileMenu.isOpen /\ MobileMenu.isAnimating
    /\ ~dom.navActive
    /\ Len(timers.anim) = 1

(* ----------------------- drawer: double registration ------------------- *)
\* the step is one click on the toggle, on the close button or on the overlay, or
\* one press of Escape
SingleTrigger == ToggleClick \/ CloseBtnClick \/ OverlayClick \/ EscapeKey

\* one trigger, its listeners registered twice, makes at most one transition: none
\* while the drawer is animating, from Open the closing and nothing after it, and a
\* click on the toggle of the closed drawer the opening and nothing after it
OneTransitionPerTrigger ==
    (listeners.menu = 2 /\ SingleTrigger) =>
        /\ Len(timers'.anim) <= Len(timers.anim) + 1
        /\ MobileMenu.isAnimating
              => (MobileMenu' = MobileMenu /\ timers'.anim = timers.anim)
        /\ Phase = "Open" => Phase' = "Closing"
        /\ (Phase = "Closed" /\ ToggleClick) => Phase' = "Opening"
        /\ (Phase = "Closed" /\ ~ToggleClick) => Phase' = "Closed"

\* C33 as stated: the second run of initMobileMenu registers every drawer listener
\* a second time, handleMenuResize and handleOutsideClick (above 768 px) included,
\* and one trigger makes at most one transition
C33_Original ==
    [][/\ (listeners.menu = 1 /\ listeners'.menu = 2)
             => /\ listeners'.resize = 2
                /\ (win.innerWidth > MobileMaxWidth /\ listeners.outside = 1)
                      => listeners'.outside = 2
       /\ OneTransitionPerTrigger]_vars

\* C33 amended: the second run of initMobileMenu registers the listeners of the
\* toggle, the close button, the overlay, the links and the keys a second time, while
\* handleMenuResize and handleOutsideClick, passed by name, stay registered once;
\* one trigger makes at most one transition
C33_OneTransitionPerEvent ==
    [][/\ (listeners.menu = 1 /\ listeners'.menu = 2)
             => (listeners'.resize = 1 /\ listeners'.outside <= 1)
       /\ OneTransitionPerTrigger]_vars

\* one click on the toggle of the closed drawer, both of its listeners having run, has
\* left the drawer opening with one animation timer
C33_Witness ==
    /\ listeners.menu = 2 /\ listeners.resize = 1
    /\ Phase = "Opening"
    /\ Len(timers.anim) = 1 /\ timers.anim[1].rem = AnimationMs
    /\ Cardinality(timers.focus) = 1 /\ FocusDelayMs \in timers.focus

(* ----------------------- application flag of the drawer ---------------- *)
\* C34 as stated: AppState.isMenuOpen equals MobileMenu.isOpen in every reachable
\* state.  openMobileMenu and closeMobileMenu write MobileMenu.isOpen only; the one
\* writer of AppState.isMenuOpen, AppUtils.updateMenuState, has no caller
C34_Original == AppState.isMenuOpen = MobileMenu.isOpen

(* ----------------------- inline styles after a swipe ------------------- *)
\* C35 as stated: once a touchend has ended a gesture on the panel, whether it closed
\* the drawer or not, the inline transform of the panel and the inline opacity of the
\* overlay are back to their values before the drag (none)
C35_Original ==
    [][NavTouchEnd(EndDeltas, Durations)
          => (dom'.navTransform = <<>> /\ dom'.overlayOpacity = <<>>)]_vars

(* ----------------------- anchor links of the drawer -------------------- *)
\* the drawer under clicks on its in-page anchor links; between such a click and its
\* scroll nothing opens the drawer again
NextAnchor ==
    \/ InitTimerFire({280})
    \/ (timers.anchor = {} /\ ToggleClick)
    \/ AnchorLinkClick
    \/ AnimTimerFire
    \/ FocusTimerFire
    \/ AnchorTimerFire
    \/ Tick

SpecAnchor == InitDrag /\ [][NextAnchor]_vars

\* C36 as stated: when the delayed scroll of an anchor click runs, the drawer is Closed
\* and the body scroll-lock has been released, also if the click came while the drawer
\* was Opening
C36_Original ==
    [][AnchorTimerFire => (Phase = "Closed" /\ ~BodyFixed)]_vars

(* ----------------------- overlapping language choices ------------------ *)
\* the language switcher when every loadDictionary call succeeds
NextLangSettled ==
    \/ LangInit
    \/ LangClick
    \/ DictionaryArriveFrom(LocaleObjects)

SpecLangSettled == InitLangSwitcher /\ [][NextLangSettled]_vars

\* the language of the locale file a dictionary came from
LanguageOf(d) == CHOOSE lang \in Langs : d \in Dictionaries[lang]

\* C37 as stated: once every setLanguage call has settled, all of them successfully,
\* the language of the dictionary applied to the page is the language stored, the
\* language of the active button and the lang attribute of the html element, in
\* whatever order overlapping loads completed
C37_Original ==
    (i18n.ready /\ loads = <<>>) =>
        /\ i18n.storage = <<LanguageOf(i18n.dictionary)>>
        /\ i18nDom.active = {LanguageOf(i18n.dictionary)}
        /\ i18nDom.htmlLang = LanguageOf(i18n.dictionary)

(* ----------------------- a dictionary that fails to load --------------- *)
\* the step settles a loadDictionary call with a failure
LoadFails ==
    /\ langObs'.issued = langObs.issued
    /\ Len(loads') = Len(loads) - 1
    /\ langObs'.applied = <<>>

\* C38: a step that calls setLanguage(code) stores code and makes its button the
\* active one before anything is fetched; a step in which the fetch of a call fails
\* changes nothing but the set of loads in flight: the dictionary, every translated
\* text, placeholder and the title, the lang attribute, the stored language and the
\* active button stay as they were
C38_FailedLoadKeepsPage ==
    [][/\ langObs'.issued > langObs.issued
             => /\ i18n'.storage = <<Requested(loads')>>
                /\ i18nDom'.active = {Requested(loads')}
       /\ LoadFails => (i18n' = i18n /\ i18nDom' = i18nDom)]_vars

\* the page showed Russian, English was chosen and its dictionary failed to load:
\* nothing is in flight, the page still shows the Russian dictionary under lang "ru",
\* and the stored language and the active button are English
C38_Witness ==
    /\ loads = <<>>
    /\ langObs.issued = 2 /\ langObs.last.seq = 1 /\ langObs.applied = <<>>
    /\ i18n.dictionary = RuFull
    /\ i18nDom.text = [navHome |-> <<"G", "l">>, title |-> <<"A", "r">>]
    /\ i18nDom.placeholder.nameInput = <<"I", "m">>
    /\ i18nDom.htmlLang = "ru"
    /\ i18n.storage = <<"en">>
    /\ i18nDom.active = {"en"}

(* ----------------------- network monitoring ---------------------------- *)
\* the main script under network events, on a phone, a tablet and a desktop, loaded online or
\* offline, with or without navigator.connection
NextNetwork ==
    \/ MainInit
    \/ OnlineEvent
    \/ OfflineEvent
    \/ ConnectionChange

InitNetwork ==
    /\ InitDrawer({AllElements}, {FALSE}, {1}, {ScrollUnit}, {NoTimer})
    /\ InitFleet({FullFleetPage})
    /\ InitLang({<<>>})
    /\ InitViewportOn({320, 1024, 1500}, {FALSE}, {FALSE}, {FALSE}, BOOLEAN,
                      {"absent", "fast", "slow"})

SpecNetwork == InitNetwork /\ [][NextNetwork]_vars

\* C39 as stated: once monitoring has started, AppState.networkStatus is good, slow or
\* offline, body carries the one network-* class of the status, and the status is
\* offline whenever the last of the online and offline events was offline
C39_Original ==
    AppState.initialized =>
        /\ AppState.networkStatus \in NetworkStatuses
        /\ bodyClass.network = {AppState.networkStatus}
        /\ viewObs.lastLine = "offline" => AppState.networkStatus = "offline"

\* what does hold of the status and its class
C39_StatusAndClass ==
    AppState.initialized =>
        /\ AppState.networkStatus \in NetworkStatuses
        /\ bodyClass.network = {AppState.networkStatus}

====
